---- MODULE Spec2Model ----
(***************************************************************************)
(* A model of the grade computation engine of CanvasBeaver                 *)
(* (canvas/grade_processor.py, canvas/gradebook.py).                       *)
(*                                                                         *)
(* Python floats are modelled as exact rationals <<n, d>> (d > 0, lowest   *)
(* terms).  Category weights are kept in integer weight units, WeightOne   *)
(* units making 1.0 and WeightEps units making the tolerance 1e-8.         *)
(* Python dicts are modelled as sequences in insertion order where the     *)
(* code iterates over them, and as functions where only lookups are made.  *)
(***************************************************************************)
EXTENDS Integers, Sequences, FiniteSets, TLC

VARIABLES
    assignments,          \* Gradebook.assignments: aid -> Assignment
    students,             \* Gradebook.students, in dict order
    config,               \* GradeProcessor.config (a GradeConfiguration)
    assignment_to_type,   \* GradeProcessor._assignment_to_type
    graded_assignments,   \* GradeProcessor._graded_assignments (set: {} when unset)
    has_graded,           \* hasattr(self, '_graded_assignments')
    weight_normalization, \* GradeProcessor._weight_normalization
    has_norm,             \* hasattr(self, '_weight_normalization')
    processed_students,   \* GradeProcessor.processed_students, in dict order
    scales,               \* letter_grade_scale and modified_grade_scale
    drop_config,          \* config_data['drop_lowest'] of the course (process_grades.py)
    call,                 \* arguments of the latest process_grades call
    fn,                   \* a function called on its own: arguments and result
    roster                \* a Roster: its roles, its buckets and the latest call

vars == <<assignments, students, config, assignment_to_type, graded_assignments,
          has_graded, weight_normalization, has_norm, processed_students, scales,
          drop_config, call, fn, roster>>

-----------------------------------------------------------------------------
(* Bounds of the model *)

\* most submission records in a gradebook
MaxRecords == 3
\* greatest drop count passed to process_grades
MaxDrop == 2

-----------------------------------------------------------------------------
(* Program constants *)

\* 1.0 in weight units
WeightOne == 100000000
\* the tolerance 1e-8 in weight units
WeightEps == 1
\* Python's None where a number is expected
None == -1
\* Python's None where a string is expected
NoneStr == "<None>"

-----------------------------------------------------------------------------
(* Exact rational arithmetic standing for float arithmetic *)

RECURSIVE GCD(_, _)
GCD(a, b) == IF b = 0 THEN a ELSE GCD(b, a % b)

Abs(x) == IF x < 0 THEN 0 - x ELSE x

Frac(n, d) ==
    LET g == GCD(Abs(n), Abs(d))
        s == IF d < 0 THEN 0 - 1 ELSE 1
    IN  <<s * (n \div g), s * (d \div g)>>

RZero == <<0, 1>>
ROne == <<1, 1>>
RAdd(x, y) == Frac(x[1] * y[2] + y[1] * x[2], x[2] * y[2])
RSub(x, y) == Frac(x[1] * y[2] - y[1] * x[2], x[2] * y[2])
RMul(x, y) == Frac(x[1] * y[1], x[2] * y[2])
RDiv(x, y) == Frac(x[1] * y[2], x[2] * y[1])
RLt(x, y) == x[1] * y[2] < y[1] * x[2]
RLe(x, y) == x[1] * y[2] <= y[1] * x[2]
RInt(k) == <<k, 1>>

\* a weight in weight units as a fraction of 1.0
WeightFrac(w) == Frac(w, WeightOne)

RECURSIVE RSum(_)
RSum(s) == IF s = <<>> THEN RZero ELSE RAdd(s[1], RSum(Tail(s)))

EmptyFn == [x \in {} |-> 0]

RECURSIVE SumValues(_)
SumValues(f) ==
    IF DOMAIN f = {} THEN 0
    ELSE LET k == CHOOSE x \in DOMAIN f : TRUE
         IN  f[k] + SumValues([x \in DOMAIN f \ {k} |-> f[x]])

\* dict[key] = value on a dict kept as a function
DictSet(f, key, value) ==
    [x \in DOMAIN f \cup {key} |-> IF x = key THEN value ELSE f[x]]

Max2(a, b) == IF a > b THEN a ELSE b
Min2(a, b) == IF a < b THEN a ELSE b

-----------------------------------------------------------------------------
(* GradeConfiguration *)

\* The validation of GradeConfiguration.__init__ with the `else` branch of
\* allow_partial left out.
WeightsRaise_NoStrictCheck(total, allow_partial) ==
    IF total > WeightOne + WeightEps THEN TRUE
    ELSE IF total < WeightEps THEN TRUE
    ELSE FALSE

\* TRUE when GradeConfiguration.__init__ raises BadGradeTypesWeight for weights
\* that sum to total
WeightsRaise(total, allow_partial) ==
    IF total > WeightOne + WeightEps THEN TRUE
    ELSE IF total < WeightEps THEN TRUE
    ELSE IF allow_partial THEN FALSE
    ELSE Abs(total - WeightOne) > WeightEps

\* the object GradeConfiguration(grade_types, allow_partial) builds;
\* raised tells that the constructor raised instead of returning
GradeConfiguration(grade_types, allow_partial) ==
    LET total == SumValues(grade_types)
    IN  [grade_types   |-> grade_types,
         allow_partial |-> allow_partial,
         total_weight  |-> total,
         raised        |-> WeightsRaise(total, allow_partial)]

\* GradeConfiguration.weight_for_type
weight_for_type(cfg, type_name) ==
    IF type_name \in DOMAIN cfg.grade_types THEN cfg.grade_types[type_name] ELSE 0

-----------------------------------------------------------------------------
(* letter_grade *)

\* the scale letter_grade falls back to when none is given
DefaultScale ==
    << <<Frac(0, 100), "F">>,   <<Frac(61, 100), "D-">>, <<Frac(70, 100), "D">>,
       <<Frac(74, 100), "C-">>, <<Frac(77, 100), "C">>,  <<Frac(80, 100), "C+">>,
       <<Frac(84, 100), "B-">>, <<Frac(87, 100), "B">>,  <<Frac(90, 100), "B+">>,
       <<Frac(94, 100), "A-">>, <<Frac(97, 100), "A">>,  <<Frac(100, 100), "A+">> >>

\* sorted(scale.items()): the (threshold, label) pairs by ascending threshold
RECURSIVE InsertItem(_, _)
InsertItem(sorted, item) ==
    IF sorted = <<>> THEN <<item>>
    ELSE IF RLt(item[1], sorted[1][1]) THEN <<item>> \o sorted
    ELSE <<sorted[1]>> \o InsertItem(Tail(sorted), item)

RECURSIVE InsertionSortScale(_)
InsertionSortScale(scale) ==
    IF scale = <<>> THEN <<>>
    ELSE InsertItem(InsertionSortScale(SubSeq(scale, 1, Len(scale) - 1)),
                    scale[Len(scale)])

\* a scale already in ascending order is its own sorted list
SortedScale(scale) ==
    IF \A k \in 1..(Len(scale) - 1) : RLt(scale[k][1], scale[k + 1][1])
    THEN scale
    ELSE InsertionSortScale(scale)

\* bisect.bisect(a, x): the binary search of bisect_right, lo and hi 0-based
RECURSIVE BisectLoop(_, _, _, _)
BisectLoop(a, x, lo, hi) ==
    IF lo < hi
    THEN LET mid == (lo + hi) \div 2
         IN  IF RLt(x, a[mid + 1]) THEN BisectLoop(a, x, lo, mid)
             ELSE BisectLoop(a, x, mid + 1, hi)
    ELSE lo

\* bisect_left in place of bisect: a percentage equal to a threshold falls below it
RECURSIVE BisectLeftLoop(_, _, _, _)
BisectLeftLoop(a, x, lo, hi) ==
    IF lo < hi
    THEN LET mid == (lo + hi) \div 2
         IN  IF RLt(a[mid + 1], x) THEN BisectLeftLoop(a, x, mid + 1, hi)
             ELSE BisectLeftLoop(a, x, lo, mid)
    ELSE lo

BisectLeft(a, x) == BisectLeftLoop(a, x, 0, Len(a))

bisect(a, x) == BisectLoop(a, x, 0, Len(a))

\* letter_grade(percentage, scale) for a scale with at least one threshold
letter_grade(percentage, scale) ==
    LET sorted_items == SortedScale(scale)
        breakpoints == [k \in 1..Len(sorted_items) |-> sorted_items[k][1]]
        letters == [k \in 1..Len(sorted_items) |-> sorted_items[k][2]]
        i == bisect(breakpoints, percentage)
        index == Max2(0, Min2(i - 1, Len(letters) - 1))
        index2 == IF RLt(percentage, breakpoints[1]) THEN 0 ELSE index
    IN  letters[index2 + 1]

\* the scale a processor resolves letters with: its own, or the default
ScaleOrDefault(scale) == IF scale = <<>> THEN DefaultScale ELSE scale

-----------------------------------------------------------------------------
(* Gradebook *)

\* Gradebook.load_from_data, the assignments: a list of dicts becomes aid -> Assignment
RECURSIVE LoadAssignments(_)
LoadAssignments(alist) ==
    IF alist = <<>> THEN EmptyFn
    ELSE LET a == alist[Len(alist)]
         IN  DictSet(LoadAssignments(SubSeq(alist, 1, Len(alist) - 1)), a.id,
                     [id |-> a.id, name |-> a.name,
                      points_possible |-> a.points_possible,
                      assignment_group_id |-> a.assignment_group_id])

\* the StudentScore records of one student, in the order of the submission list;
\* a submission for an unknown assignment is skipped, a second one for the same
\* assignment replaces the first in place
RECURSIVE LoadScores(_, _, _)
LoadScores(subs, uid, asg) ==
    IF subs = <<>> THEN <<>>
    ELSE LET rest == LoadScores(SubSeq(subs, 1, Len(subs) - 1), uid, asg)
             s == subs[Len(subs)]
             rec == [assignment_id |-> s.assignment_id, score |-> s.score,
                     points_possible |-> asg[s.assignment_id].points_possible,
                     excused |-> s.excused]
         IN  IF s.user_id # uid \/ s.assignment_id \notin DOMAIN asg THEN rest
             ELSE IF \E k \in 1..Len(rest) : rest[k].assignment_id = s.assignment_id
                  THEN [k \in 1..Len(rest) |->
                           IF rest[k].assignment_id = s.assignment_id THEN rec ELSE rest[k]]
                  ELSE Append(rest, rec)

\* student.scores.get(aid): the set holding the record, empty when there is none
ScoreOf(student, aid) ==
    {student.scores[k] : k \in {j \in 1..Len(student.scores) :
                                   student.scores[j].assignment_id = aid}}

\* totals in which a missing submission adds nothing to total_points
RECURSIVE ComputeTotals_PresentOnly(_, _, _)
ComputeTotals_PresentOnly(scores, asg, aids) ==
    IF aids = {} THEN <<0, 0>>
    ELSE LET aid == CHOOSE x \in aids : TRUE
             rest == ComputeTotals_PresentOnly(scores, asg, aids \ {aid})
             sc == {scores[k] : k \in {j \in 1..Len(scores) : scores[j].assignment_id = aid}}
             pts == IF asg[aid].points_possible # None THEN asg[aid].points_possible ELSE 0
         IN  IF sc = {} THEN rest
             ELSE LET r == CHOOSE x \in sc : TRUE
                  IN  IF r.excused THEN rest
                      ELSE <<rest[1] + (IF r.score # None THEN r.score ELSE 0), rest[2] + pts>>

\* Gradebook._compute_totals for one student: <<total_score, total_points>>
RECURSIVE ComputeTotals(_, _, _)
ComputeTotals(scores, asg, aids) ==
    IF aids = {} THEN <<0, 0>>
    ELSE LET aid == CHOOSE x \in aids : TRUE
             rest == ComputeTotals(scores, asg, aids \ {aid})
             sc == {scores[k] : k \in {j \in 1..Len(scores) : scores[j].assignment_id = aid}}
             pts == IF asg[aid].points_possible # None THEN asg[aid].points_possible ELSE 0
         IN  IF sc = {} THEN <<rest[1], rest[2] + pts>>
             ELSE LET r == CHOOSE x \in sc : TRUE
                  IN  IF r.excused THEN rest
                      ELSE <<rest[1] + (IF r.score # None THEN r.score ELSE 0), rest[2] + pts>>

\* StudentSummary.percent: <<>> stands for None
percent(stu) ==
    IF stu.total_points # 0 /\ stu.total_points > 0
    THEN <<Frac(100 * stu.total_score, stu.total_points)>>
    ELSE <<>>

\* Gradebook.load_from_data, the students: one StudentSummary per dict of the
\* list, in list order, with the scores and the totals
LoadStudents(ulist, subs, asg) ==
    [k \in 1..Len(ulist) |->
        LET scores == LoadScores(subs, ulist[k].id, asg)
            totals == ComputeTotals(scores, asg, DOMAIN asg)
        IN  [id |-> ulist[k].id, name |-> ulist[k].name, scores |-> scores,
             total_score |-> totals[1], total_points |-> totals[2]]]

-----------------------------------------------------------------------------
(* GradeProcessor: construction from Canvas assignment groups *)

\* grade_types of _init_from_canvas_groups: name -> weight / 100, for the groups
\* that have a name and a weight
RECURSIVE GroupWeights(_)
GroupWeights(groups) ==
    IF groups = <<>> THEN EmptyFn
    ELSE LET g == groups[Len(groups)]
             rest == GroupWeights(SubSeq(groups, 1, Len(groups) - 1))
         IN  IF g.name # "" /\ g.name # NoneStr /\ g.group_weight # None
             THEN DictSet(rest, g.name, g.group_weight * (WeightOne \div 100))
             ELSE rest

\* _group_id_to_name of _init_from_canvas_groups
RECURSIVE GroupIdToName(_)
GroupIdToName(groups) ==
    IF groups = <<>> THEN EmptyFn
    ELSE LET g == groups[Len(groups)]
             rest == GroupIdToName(SubSeq(groups, 1, Len(groups) - 1))
         IN  IF g.name # "" /\ g.name # NoneStr /\ g.group_weight # None
             THEN DictSet(rest, g.id, g.name)
             ELSE rest

\* _assignment_to_type of _init_from_canvas_groups
AssignmentToType(groups, asg) ==
    LET id2name == GroupIdToName(groups)
        mapped == {aid \in DOMAIN asg : asg[aid].assignment_group_id \in DOMAIN id2name}
    IN  [aid \in mapped |-> id2name[asg[aid].assignment_group_id]]

\* a legacy mapping that puts every assignment into the configuration's
\* categories by the group it belongs to
LegacyMapByGroup(asg, groups) == AssignmentToType(groups, asg)

\* _build_assignment_map_legacy: the mapping of a processor constructed from a
\* grade_config; it returns the empty dict
_build_assignment_map_legacy(asg, groups) == EmptyFn

-----------------------------------------------------------------------------
(* GradeProcessor: the counted assignments and the normalization factor *)

\* a scan for graded work that takes any recorded score, zero included, as graded
IdentifyAnyScore(asg, studs) ==
    {aid \in DOMAIN asg :
        \E k \in 1..Len(studs) : \E r \in ScoreOf(studs[k], aid) :
            ~r.excused /\ r.score # None}

\* a scan for graded work that does not look at the excused flag
IdentifyIgnoringExcused(asg, studs) ==
    {aid \in DOMAIN asg :
        \E k \in 1..Len(studs) : \E r \in ScoreOf(studs[k], aid) :
            r.score # None /\ r.score > 0}

\* _identify_graded_assignments: the assignments for which some student of the
\* gradebook has a non-excused score above zero
_identify_graded_assignments(asg, studs) ==
    {aid \in DOMAIN asg :
        \E k \in 1..Len(studs) : \E r \in ScoreOf(studs[k], aid) :
            ~r.excused /\ r.score # None /\ r.score > 0}

\* the categories _calculate_graded_category_weights finds graded work in
GradedCategories(graded, a2t) ==
    {a2t[aid] : aid \in {x \in graded : x \in DOMAIN a2t /\ a2t[x] # ""}}

\* _active_weight_total of _calculate_graded_category_weights, in weight units
ActiveWeightTotal(graded, a2t, cfg) ==
    LET cats == GradedCategories(graded, a2t)
    IN  SumValues([t \in {x \in DOMAIN cfg.grade_types : x \in cats} |->
                      cfg.grade_types[t]])

\* a normalization that ignores which categories have graded work: the whole
\* configured weight
NominalTotalWeight(graded, a2t, cfg) ==
    IF cfg.total_weight > 0 THEN WeightFrac(cfg.total_weight) ELSE ROne

\* _weight_normalization as _calculate_graded_category_weights stores it
_calculate_graded_category_weights(graded, a2t, cfg) ==
    LET active == ActiveWeightTotal(graded, a2t, cfg)
    IN  IF active > 0 THEN WeightFrac(active) ELSE ROne

-----------------------------------------------------------------------------
(* GradeProcessor._process_student *)

\* a percentage that is cut off at 100%
ScorePct_Clamped(score) ==
    IF score.score # None /\ score.points_possible # None
       /\ score.points_possible # 0 /\ score.points_possible > 0
    THEN <<Frac(Min2(score.score, score.points_possible), score.points_possible),
           score.score>>
    ELSE <<RZero, 0>>

\* the percentage and points of one score record (grade_processor.py 474-479)
ScorePct(score) ==
    IF score.score # None /\ score.points_possible # None
       /\ score.points_possible # 0 /\ score.points_possible > 0
    THEN <<Frac(score.score, score.points_possible), score.score>>
    ELSE <<RZero, 0>>

\* assignments_by_type[type_name][aid] = (pct, pts) on the dict of dicts, kept
\* as a sequence of [type_name, items] in insertion order
AddToType(by_type, type_name, item) ==
    IF \E k \in 1..Len(by_type) : by_type[k].type_name = type_name
    THEN [k \in 1..Len(by_type) |->
             IF by_type[k].type_name = type_name
             THEN [by_type[k] EXCEPT !.items = Append(@, item)]
             ELSE by_type[k]]
    ELSE Append(by_type, [type_name |-> type_name, items |-> <<item>>])

\* the first loop of _process_student: the student's counted, non-excused,
\* mapped records grouped by category
RECURSIVE AssignmentsByType(_, _, _, _)
AssignmentsByType(scores, hasGraded, graded, a2t) ==
    IF scores = <<>> THEN <<>>
    ELSE LET rest == AssignmentsByType(SubSeq(scores, 1, Len(scores) - 1),
                                       hasGraded, graded, a2t)
             score == scores[Len(scores)]
             aid == score.assignment_id
         IN  IF ~hasGraded \/ aid \notin graded THEN rest
             ELSE IF score.excused THEN rest
             ELSE IF aid \notin DOMAIN a2t \/ a2t[aid] = "" THEN rest
             ELSE LET pp == ScorePct(score)
                  IN  AddToType(rest, a2t[aid],
                                [aid |-> aid, pct |-> pp[1], pts |-> pp[2]])

\* sorted(assignments.items(), key=pct): ascending and stable
RECURSIVE InsertByPct(_, _)
InsertByPct(sorted, item) ==
    IF sorted = <<>> THEN <<item>>
    ELSE IF RLt(item.pct, sorted[1].pct) THEN <<item>> \o sorted
    ELSE <<sorted[1]>> \o InsertByPct(Tail(sorted), item)

RECURSIVE SortByPct(_)
SortByPct(items) ==
    IF items = <<>> THEN <<>>
    ELSE InsertByPct(SortByPct(SubSeq(items, 1, Len(items) - 1)), items[Len(items)])

\* drop_lowest.get(type_name, 0)
NumToDrop(drop_lowest, type_name) ==
    IF type_name \in DOMAIN drop_lowest THEN drop_lowest[type_name] ELSE 0

\* a drop that is also applied when it leaves nothing
DropApplies_AtLeast(num_to_drop, n) == num_to_drop > 0 /\ n >= num_to_drop

\* the condition under which the lowest items are dropped
DropApplies(num_to_drop, n) == num_to_drop > 0 /\ n > num_to_drop

\* a drop that removes the highest items instead of the lowest
KeptItems_DropHighest(sorted_items, num_to_drop) ==
    IF DropApplies(num_to_drop, Len(sorted_items))
    THEN SubSeq(sorted_items, 1, Len(sorted_items) - num_to_drop)
    ELSE sorted_items

\* sorted_items after "Drop lowest if requested"
KeptItems(sorted_items, num_to_drop) ==
    IF DropApplies(num_to_drop, Len(sorted_items))
    THEN SubSeq(sorted_items, num_to_drop + 1, Len(sorted_items))
    ELSE sorted_items

\* a dropped field that keeps the last item removed instead of the lowest
DroppedInfo_LastRemoved(sorted_items, num_to_drop, asg) ==
    IF DropApplies(num_to_drop, Len(sorted_items))
    THEN <<asg[sorted_items[num_to_drop].aid].name, sorted_items[num_to_drop].pct,
           sorted_items[num_to_drop].pts>>
    ELSE <<>>

\* dropped after "Drop lowest if requested": <<>> stands for None
DroppedInfo(sorted_items, num_to_drop, asg) ==
    IF DropApplies(num_to_drop, Len(sorted_items))
    THEN <<asg[sorted_items[1].aid].name, sorted_items[1].pct, sorted_items[1].pts>>
    ELSE <<>>

\* assgn_dict[name] = (pct, pts): a dict by assignment name, in insertion order
RECURSIVE AssgnDict(_, _)
AssgnDict(items, asg) ==
    IF items = <<>> THEN <<>>
    ELSE LET rest == AssgnDict(SubSeq(items, 1, Len(items) - 1), asg)
             it == items[Len(items)]
             entry == <<asg[it.aid].name, it.pct, it.pts>>
         IN  IF \E k \in 1..Len(rest) : rest[k][1] = entry[1]
             THEN [k \in 1..Len(rest) |-> IF rest[k][1] = entry[1] THEN entry ELSE rest[k]]
             ELSE Append(rest, entry)

\* avg_pct: the mean of the fractions of the surviving items
AveragePct(kept) ==
    RDiv(RSum([k \in 1..Len(kept) |-> kept[k].pct]), RInt(Len(kept)))

\* a contribution whose weight is rescaled by the configured total
Contribution_Rescaled(avg_pct, cfg, type_name) ==
    RMul(avg_pct, Frac(weight_for_type(cfg, type_name), cfg.total_weight))

\* contribution = avg_pct * weight, the weight being the category's full weight
Contribution(avg_pct, cfg, type_name) ==
    RMul(avg_pct, WeightFrac(weight_for_type(cfg, type_name)))

\* the GradeTypeResult of one category of assignments_by_type, as a sequence of
\* none (no surviving item) or one result
TypeResult(entry, drop_lowest, cfg, asg) ==
    LET sorted_items == SortByPct(entry.items)
        num_to_drop == NumToDrop(drop_lowest, entry.type_name)
        kept == KeptItems(sorted_items, num_to_drop)
        avg_pct == AveragePct(kept)
    IN  IF kept = <<>> THEN <<>>
        ELSE << [type_name |-> entry.type_name,
                 assignments |-> AssgnDict(kept, asg),
                 average_percentage |-> avg_pct,
                 contribution_to_total |-> Contribution(avg_pct, cfg, entry.type_name),
                 num_assignments |-> Len(kept),
                 dropped |-> DroppedInfo(sorted_items, num_to_drop, asg)] >>

\* processed.grade_types after the second loop, in insertion order
RECURSIVE GradeTypes(_, _, _, _)
GradeTypes(by_type, drop_lowest, cfg, asg) ==
    IF by_type = <<>> THEN <<>>
    ELSE GradeTypes(SubSeq(by_type, 1, Len(by_type) - 1), drop_lowest, cfg, asg)
         \o TypeResult(by_type[Len(by_type)], drop_lowest, cfg, asg)

\* processed.final_percentage: the contributions added up
FinalPercentage(grade_types) ==
    RSum([k \in 1..Len(grade_types) |-> grade_types[k].contribution_to_total])

\* the factor "Normalize and compute letter grade" divides by; <<>> when neither
\* a stored normalization nor a positive total weight exists
NormalizationOf(hasNorm, norm, cfg) ==
    IF hasNorm /\ RLt(RZero, norm) THEN <<norm>>
    ELSE IF cfg.total_weight > 0 THEN <<WeightFrac(cfg.total_weight)>>
    ELSE <<>>

\* a _process_student that looks the letters up for the raw final percentage
ProcessStudent_RawLetter(student, drop_lowest, hasGraded, graded, a2t, cfg, hasNorm, norm, asg, scale, modified_scale) ==
    LET by_type == AssignmentsByType(student.scores, hasGraded, graded, a2t)
        grade_types == GradeTypes(by_type, drop_lowest, cfg, asg)
        final == FinalPercentage(grade_types)
        nf == NormalizationOf(hasNorm, norm, cfg)
        normalized == IF nf = <<>> THEN RZero ELSE RDiv(final, nf[1])
    IN  [user_id |-> student.id,
         name |-> student.name,
         grade_types |-> grade_types,
         final_percentage |-> final,
         normalized_percentage |-> normalized,
         weight_normalization_factor |-> IF nf = <<>> THEN ROne ELSE nf[1],
         letter_grade |-> letter_grade(final, ScaleOrDefault(scale)),
         modified_letter_grade |->
             IF modified_scale # <<>> THEN letter_grade(final, modified_scale)
             ELSE NoneStr,
         anomalies |-> <<>>]

\* _process_student
_process_student(student, drop_lowest, hasGraded, graded, a2t, cfg, hasNorm, norm, asg, scale, modified_scale) ==
    LET by_type == AssignmentsByType(student.scores, hasGraded, graded, a2t)
        grade_types == GradeTypes(by_type, drop_lowest, cfg, asg)
        final == FinalPercentage(grade_types)
        nf == NormalizationOf(hasNorm, norm, cfg)
        normalized == IF nf = <<>> THEN RZero ELSE RDiv(final, nf[1])
    IN  [user_id |-> student.id,
         name |-> student.name,
         grade_types |-> grade_types,
         final_percentage |-> final,
         normalized_percentage |-> normalized,
         weight_normalization_factor |-> IF nf = <<>> THEN ROne ELSE nf[1],
         letter_grade |-> letter_grade(normalized, ScaleOrDefault(scale)),
         modified_letter_grade |->
             IF modified_scale # <<>> THEN letter_grade(normalized, modified_scale)
             ELSE NoneStr,
         anomalies |-> <<>>]

-----------------------------------------------------------------------------
(* GradeProcessor.process_grades *)

\* a run that takes no student for a test student
NoTestStudent(name) == FALSE

\* the test of process_grades for a test student: 'Perfect' in name or
\* 'Test Student' in name, over the names of the model
IsTestStudent(name) ==
    name # NoneStr /\ name # "" /\ name \in {"Test Student", "Perfect Score"}

\* self.processed_students[student.id] = processed
StoreProcessed(processed, rec) ==
    IF \E k \in 1..Len(processed) : processed[k].user_id = rec.user_id
    THEN [k \in 1..Len(processed) |->
             IF processed[k].user_id = rec.user_id THEN rec ELSE processed[k]]
    ELSE Append(processed, rec)

\* a per-student pass whose assignments_by_type is not reset between students:
\* each student is processed with the records of the student before as well
RECURSIVE ProcessEachStudent_SharedItems(_, _, _, _, _, _, _, _, _, _, _)
ProcessEachStudent_SharedItems(studs, processed, drop_lowest, hasGraded, graded, a2t, cfg, hasNorm, norm, asg, sc) ==
    IF studs = <<>> THEN processed
    ELSE LET before == ProcessEachStudent_SharedItems(SubSeq(studs, 1, Len(studs) - 1),
                                                      processed, drop_lowest, hasGraded,
                                                      graded, a2t, cfg, hasNorm, norm,
                                                      asg, sc)
             carried == IF Len(studs) > 1 THEN studs[Len(studs) - 1].scores ELSE <<>>
             student == [studs[Len(studs)] EXCEPT !.scores = carried \o @]
         IN  IF IsTestStudent(student.name) THEN before
             ELSE StoreProcessed(before,
                      _process_student(student, drop_lowest, hasGraded, graded, a2t,
                                       cfg, hasNorm, norm, asg, sc.letter, sc.modified))

\* the loop "Process each student" of process_grades
RECURSIVE ProcessEachStudent(_, _, _, _, _, _, _, _, _, _, _)
ProcessEachStudent(studs, processed, drop_lowest, hasGraded, graded, a2t, cfg, hasNorm, norm, asg, sc) ==
    IF studs = <<>> THEN processed
    ELSE LET before == ProcessEachStudent(SubSeq(studs, 1, Len(studs) - 1), processed,
                                          drop_lowest, hasGraded, graded, a2t, cfg,
                                          hasNorm, norm, asg, sc)
             student == studs[Len(studs)]
         IN  IF IsTestStudent(student.name) THEN before
             ELSE StoreProcessed(before,
                      _process_student(student, drop_lowest, hasGraded, graded, a2t,
                                       cfg, hasNorm, norm, asg, sc.letter, sc.modified))

\* _graded_assignments as process_grades sets it
GradedFor(only_graded, asg, studs) ==
    IF only_graded THEN _identify_graded_assignments(asg, studs) ELSE DOMAIN asg

-----------------------------------------------------------------------------
(* GradeProcessor._detect_anomalies *)

\* statistics.mean
Mean(xs) == RDiv(RSum(xs), RInt(Len(xs)))

\* the square of statistics.stdev: the sample variance (two or more values)
SampleVariance(xs) ==
    LET m == Mean(xs)
    IN  RDiv(RSum([k \in 1..Len(xs) |-> RMul(RSub(xs[k], m), RSub(xs[k], m))]),
             RInt(Len(xs) - 1))

\* the category averages of the processed students that have a result in the
\* category, in dict order
RECURSIVE ClassPercentages(_, _)
ClassPercentages(processed, type_name) ==
    IF processed = <<>> THEN <<>>
    ELSE LET p == processed[1]
             rs == {k \in 1..Len(p.grade_types) : p.grade_types[k].type_name = type_name}
         IN  (IF rs = {} THEN <<>>
              ELSE <<p.grade_types[CHOOSE k \in rs : TRUE].average_percentage>>)
             \o ClassPercentages(Tail(processed), type_name)

\* type_stats: mean and squared stdev of each category with two or more averages
TypeStats(processed, cfg) ==
    LET with2 == {t \in DOMAIN cfg.grade_types : Len(ClassPercentages(processed, t)) >= 2}
    IN  [t \in with2 |->
            [mean |-> Mean(ClassPercentages(processed, t)),
             variance |-> SampleVariance(ClassPercentages(processed, t))]]

\* the category names of the model in the order of Python's string comparison
TypeNameOrder == <<"Final", "Homework", "Problem Sets", "Quizzes">>
TypeRank(name) == CHOOSE k \in 1..Len(TypeNameOrder) : TypeNameOrder[k] = name
\* type1 >= type2
TypeGeq(type1, type2) == TypeRank(type1) >= TypeRank(type2)

\* Check 1 without the test of the higher average against 0.90
GapFinding_AnyGap(r1, r2) ==
    LET pct1 == r1.average_percentage
        pct2 == r2.average_percentage
        gap == IF RLt(pct1, pct2) THEN RSub(pct2, pct1) ELSE RSub(pct1, pct2)
    IN  IF TypeGeq(r1.type_name, r2.type_name) THEN <<>>
        ELSE IF RLt(Frac(20, 100), gap)
        THEN << [kind |-> "gap",
                 high_type |-> IF RLt(pct2, pct1) THEN r1.type_name ELSE r2.type_name,
                 low_type |-> IF RLt(pct2, pct1) THEN r2.type_name ELSE r1.type_name,
                 high_pct |-> IF RLt(pct1, pct2) THEN pct2 ELSE pct1,
                 low_pct |-> IF RLt(pct1, pct2) THEN pct1 ELSE pct2,
                 gap |-> gap] >>
        ELSE <<>>

\* Check 1 for one ordered pair of a student's results: none or one finding
GapFinding(r1, r2) ==
    LET pct1 == r1.average_percentage
        pct2 == r2.average_percentage
        gap == IF RLt(pct1, pct2) THEN RSub(pct2, pct1) ELSE RSub(pct1, pct2)
        hi == IF RLt(pct1, pct2) THEN pct2 ELSE pct1
        lo == IF RLt(pct1, pct2) THEN pct1 ELSE pct2
    IN  IF TypeGeq(r1.type_name, r2.type_name) THEN <<>>
        ELSE IF RLt(Frac(90, 100), hi) /\ RLt(Frac(20, 100), gap)
        THEN << [kind |-> "gap",
                 high_type |-> IF RLt(pct2, pct1) THEN r1.type_name ELSE r2.type_name,
                 low_type |-> IF RLt(pct2, pct1) THEN r2.type_name ELSE r1.type_name,
                 high_pct |-> hi, low_pct |-> lo, gap |-> gap] >>
        ELSE <<>>

\* Check 1: the nested loops over the student's results, from pair (i, j) on
RECURSIVE GapFindings(_, _, _)
GapFindings(gts, i, j) ==
    IF i > Len(gts) THEN <<>>
    ELSE IF j > Len(gts) THEN GapFindings(gts, i + 1, 1)
    ELSE GapFinding(gts[i], gts[j]) \o GapFindings(gts, i, j + 1)

\* Check 2 from result i on: the findings appended, and whether statistics.stdev
\* raised (fewer than two values in result.assignments)
RECURSIVE VarianceFindings(_, _)
VarianceFindings(gts, i) ==
    IF i > Len(gts) THEN [findings |-> <<>>, raised |-> FALSE]
    ELSE LET r == gts[i]
             percentages == [k \in 1..Len(r.assignments) |-> r.assignments[k][2]]
             rest == VarianceFindings(gts, i + 1)
         IN  IF r.num_assignments >= 3
             THEN IF Len(percentages) < 2
                  THEN [findings |-> <<>>, raised |-> TRUE]
                  ELSE IF RLt(Frac(4, 100), SampleVariance(percentages))
                          /\ RLt(Frac(30, 100), Mean(percentages))
                       THEN [findings |->
                                << [kind |-> "variance", type_name |-> r.type_name,
                                    variance |-> SampleVariance(percentages),
                                    mean |-> Mean(percentages)] >> \o rest.findings,
                             raised |-> rest.raised]
                       ELSE rest
             ELSE rest

\* Check 3 with the z-score tested against 1.5
OutlierFinding_Above1_5(r, type_stats) ==
    IF r.type_name \in DOMAIN type_stats
       /\ RLt(RZero, type_stats[r.type_name].variance)
    THEN LET st == type_stats[r.type_name]
             diff == RSub(r.average_percentage, st.mean)
         IN  IF RLt(RZero, diff)
                /\ RLt(RMul(Frac(9, 4), st.variance), RMul(diff, diff))
                /\ RLt(Frac(95, 100), r.average_percentage)
             THEN << [kind |-> "outlier", type_name |-> r.type_name,
                      average |-> r.average_percentage, mean |-> st.mean,
                      variance |-> st.variance] >>
             ELSE <<>>
    ELSE <<>>

\* Check 3 without the test of the average against 0.95
OutlierFinding_AnyAverage(r, type_stats) ==
    IF r.type_name \in DOMAIN type_stats
       /\ RLt(RZero, type_stats[r.type_name].variance)
    THEN LET st == type_stats[r.type_name]
             diff == RSub(r.average_percentage, st.mean)
         IN  IF RLt(RZero, diff)
                /\ RLt(RMul(RInt(4), st.variance), RMul(diff, diff))
             THEN << [kind |-> "outlier", type_name |-> r.type_name,
                      average |-> r.average_percentage, mean |-> st.mean,
                      variance |-> st.variance] >>
             ELSE <<>>
    ELSE <<>>

\* Check 3 for one result: z_score > 2.0 as a comparison of squares
OutlierFinding(r, type_stats) ==
    IF r.type_name \in DOMAIN type_stats
       /\ RLt(RZero, type_stats[r.type_name].variance)
    THEN LET st == type_stats[r.type_name]
             diff == RSub(r.average_percentage, st.mean)
         IN  IF RLt(RZero, diff)
                /\ RLt(RMul(RInt(4), st.variance), RMul(diff, diff))
                /\ RLt(Frac(95, 100), r.average_percentage)
             THEN << [kind |-> "outlier", type_name |-> r.type_name,
                      average |-> r.average_percentage, mean |-> st.mean,
                      variance |-> st.variance] >>
             ELSE <<>>
    ELSE <<>>

RECURSIVE OutlierFindings(_, _, _)
OutlierFindings(gts, type_stats, i) ==
    IF i > Len(gts) THEN <<>>
    ELSE OutlierFinding(gts[i], type_stats) \o OutlierFindings(gts, type_stats, i + 1)

\* the three checks with the class-relative findings put first
StudentFindings_OutliersFirst(student, type_stats) ==
    LET gts == student.grade_types
        c1 == IF Len(gts) >= 2 THEN GapFindings(gts, 1, 1) ELSE <<>>
        c2 == VarianceFindings(gts, 1)
    IN  [findings |-> OutlierFindings(gts, type_stats, 1) \o c1 \o c2.findings,
         raised |-> c2.raised]

\* what the loop "Check each student" appends to one student's anomalies, and
\* whether it raised before Check 3
StudentFindings(student, type_stats) ==
    LET gts == student.grade_types
        c1 == IF Len(gts) >= 2 THEN GapFindings(gts, 1, 1) ELSE <<>>
        c2 == VarianceFindings(gts, 1)
    IN  IF c2.raised
        THEN [findings |-> c1 \o c2.findings, raised |-> TRUE]
        ELSE [findings |-> c1 \o c2.findings \o OutlierFindings(gts, type_stats, 1),
              raised |-> FALSE]

\* the loop "Check each student" from student i on; it stops where it raises
RECURSIVE CheckEachStudent(_, _, _)
CheckEachStudent(processed, type_stats, i) ==
    IF i > Len(processed) THEN [processed |-> processed, raised |-> FALSE]
    ELSE LET f == StudentFindings(processed[i], type_stats)
             appended == [processed EXCEPT ![i].anomalies = @ \o f.findings]
         IN  IF f.raised THEN [processed |-> appended, raised |-> TRUE]
             ELSE CheckEachStudent(appended, type_stats, i + 1)

\* an anomaly pass run on each student as soon as it is stored: the class
\* statistics of student i are taken over the students stored up to i
DetectWhileProcessing(processed, cfg) ==
    [processed |->
        [i \in 1..Len(processed) |->
            [processed[i] EXCEPT !.anomalies =
                @ \o StudentFindings(processed[i],
                                     TypeStats(SubSeq(processed, 1, i), cfg)).findings]],
     raised |-> FALSE]

\* _detect_anomalies: processed_students afterwards, and whether it raised
_detect_anomalies(processed, cfg) ==
    CheckEachStudent(processed, TypeStats(processed, cfg), 1)

process_grades(drop_lowest, detect_anomalies, only_graded) ==
    LET graded == GradedFor(only_graded, assignments, students)
        norm == IF only_graded
                THEN _calculate_graded_category_weights(graded, assignment_to_type, config)
                ELSE weight_normalization
        hasNorm == only_graded \/ has_norm
        processed == ProcessEachStudent(students, processed_students, drop_lowest, TRUE,
                                        graded, assignment_to_type, config, hasNorm, norm,
                                        assignments, scales)
        detected == IF detect_anomalies THEN _detect_anomalies(processed, config)
                    ELSE [processed |-> processed, raised |-> FALSE]
    IN  /\ graded_assignments' = graded
        /\ has_graded' = TRUE
        /\ weight_normalization' = norm
        /\ has_norm' = hasNorm
        /\ processed_students' = detected.processed
        /\ call' = [ran |-> TRUE, drop_lowest |-> drop_lowest,
                    detect_anomalies |-> detect_anomalies, only_graded |-> only_graded,
                    raised |-> detected.raised]
        /\ UNCHANGED <<assignments, students, config, assignment_to_type, scales,
                       drop_config, fn, roster>>

-----------------------------------------------------------------------------
(* GradeProcessor.get_sorted_students *)

\* the student names of the model in the order of Python's string comparison
StudentNameOrder == <<"Alice", "Bob", "Carol", "Dave", "Erin", "Frank">>
NameRank(name) == CHOOSE k \in 1..Len(StudentNameOrder) : StudentNameOrder[k] = name

\* key(a) <= key(b) for the sort key chosen by 'by'
SortKeyLe(a, b, by) ==
    IF by = "name" THEN NameRank(a.name) <= NameRank(b.name)
    ELSE RLe(a.normalized_percentage, b.normalized_percentage)

\* a sort that pays no attention to reverse
InsertStudent_Ascending(sorted, x, by, reverse) ==
    LET stay == {k \in 1..Len(sorted) : SortKeyLe(sorted[k], x, by)}
        n == Cardinality(stay)
    IN  SubSeq(sorted, 1, n) \o <<x>> \o SubSeq(sorted, n + 1, Len(sorted))

\* list.sort is stable, also with reverse=True: x goes behind every element
\* already placed that does not have to follow it
InsertStudent(sorted, x, by, reverse) ==
    LET stay == {k \in 1..Len(sorted) :
                    IF reverse THEN SortKeyLe(x, sorted[k], by)
                    ELSE SortKeyLe(sorted[k], x, by)}
        n == Cardinality(stay)
    IN  SubSeq(sorted, 1, n) \o <<x>> \o SubSeq(sorted, n + 1, Len(sorted))

\* students.sort(key=..., reverse=...)
RECURSIVE SortStudents(_, _, _)
SortStudents(list, by, reverse) ==
    IF list = <<>> THEN <<>>
    ELSE InsertStudent(SortStudents(SubSeq(list, 1, Len(list) - 1), by, reverse),
                       list[Len(list)], by, reverse)

\* get_sorted_students(by, ascending): the list returned
get_sorted_students(processed, by, ascending) ==
    IF by \in {"name", "grade", "percentage"}
    THEN SortStudents(processed, by, ~ascending)
    ELSE processed

-----------------------------------------------------------------------------
(* Inputs *)

StudentIds == {101, 102}
AssignmentIds == {1, 2, 3}
ScoreValues == {0, 5, 8, 9, 12}

\* the course of test_drop_lowest.py: three problem sets in one group
CourseDropLowest ==
    [assignments |->
        << [id |-> 1, name |-> "PS1", points_possible |-> 10, assignment_group_id |-> 1],
           [id |-> 2, name |-> "PS2", points_possible |-> 10, assignment_group_id |-> 1],
           [id |-> 3, name |-> "PS3", points_possible |-> 10, assignment_group_id |-> 1] >>,
     groups |-> << [id |-> 1, name |-> "Problem Sets", group_weight |-> 100] >>,
     students |-> << [id |-> 101, name |-> "Alice"], [id |-> 102, name |-> "Bob"] >>]

\* the course of test_partial_grading.py: two groups weighted 40% and 60%
CoursePartial ==
    [assignments |->
        << [id |-> 1, name |-> "PS1", points_possible |-> 10, assignment_group_id |-> 1],
           [id |-> 2, name |-> "PS2", points_possible |-> 10, assignment_group_id |-> 1],
           [id |-> 3, name |-> "Final", points_possible |-> 100, assignment_group_id |-> 2] >>,
     groups |-> << [id |-> 1, name |-> "Problem Sets", group_weight |-> 40],
                   [id |-> 2, name |-> "Final", group_weight |-> 60] >>,
     students |-> << [id |-> 101, name |-> "Alice"], [id |-> 102, name |-> "Bob"] >>]

\* a course whose weights sum to 70%, with a group that has no weight, an
\* assignment without points and a test student
CourseUnweighted ==
    [assignments |->
        << [id |-> 1, name |-> "HW1", points_possible |-> 10, assignment_group_id |-> 1],
           [id |-> 2, name |-> "Quiz1", points_possible |-> 10, assignment_group_id |-> 2],
           [id |-> 3, name |-> "Survey", points_possible |-> None, assignment_group_id |-> 3] >>,
     groups |-> << [id |-> 1, name |-> "Homework", group_weight |-> 40],
                   [id |-> 2, name |-> "Quizzes", group_weight |-> 30],
                   [id |-> 3, name |-> "Ungraded", group_weight |-> None] >>,
     students |-> << [id |-> 101, name |-> "Alice"],
                     [id |-> 102, name |-> "Test Student"] >>]

Courses == {CourseDropLowest, CoursePartial, CourseUnweighted}

\* the records the first student may have for an assignment
SubmissionValues ==
    {[score |-> s, excused |-> FALSE] : s \in ScoreValues \cup {None}}
    \cup {[score |-> 9, excused |-> TRUE]}

\* the records the other students may have for an assignment
PeerValues ==
    {[score |-> 9, excused |-> FALSE]}

ValuesOf(slot) == IF slot[1] = 101 THEN SubmissionValues ELSE PeerValues

\* the submission list of a choice of records, by student and assignment
RECURSIVE SubmissionList(_, _)
SubmissionList(slots, val) ==
    IF slots = {} THEN <<>>
    ELSE LET first == CHOOSE x \in slots :
                          \A y \in slots : x[1] < y[1] \/ (x[1] = y[1] /\ x[2] <= y[2])
         IN  << [user_id |-> first[1], assignment_id |-> first[2],
                 score |-> val[first].score, excused |-> val[first].excused] >>
             \o SubmissionList(slots \ {first}, [x \in slots \ {first} |-> val[x]])

\* the drop_lowest settings of a course: one drop count for every category
DropOptions(cfg) ==
    {[t \in DOMAIN cfg.grade_types |-> k] : k \in 0..MaxDrop}

NoCall == [ran |-> FALSE, drop_lowest |-> EmptyFn, detect_anomalies |-> FALSE,
           only_graded |-> FALSE, raised |-> FALSE]
NoFn == [op |-> "none"]
\* no Roster is in use
NoRoster == [roles |-> <<>>, data |-> EmptyFn, last |-> [op |-> "none"]]

-----------------------------------------------------------------------------
(* The processor of a loaded gradebook *)

\* a gradebook loaded by load_from_data and a GradeProcessor constructed on it
\* from the course's assignment groups
Init ==
    \E course \in Courses :
    \E slots \in SUBSET (StudentIds \X AssignmentIds) :
        /\ Cardinality(slots) <= MaxRecords
        /\ \E val \in {v \in [slots -> SubmissionValues \cup PeerValues] :
                            \A x \in slots : v[x] \in ValuesOf(x)} :
            LET asg == LoadAssignments(course.assignments)
                cfg == GradeConfiguration(GroupWeights(course.groups), TRUE)
            IN  /\ ~cfg.raised
                /\ assignments = asg
                /\ students = LoadStudents(course.students, SubmissionList(slots, val), asg)
                /\ config = cfg
                /\ assignment_to_type = AssignmentToType(course.groups, asg)
                /\ drop_config \in DropOptions(cfg)
        /\ graded_assignments = {}
        /\ has_graded = FALSE
        /\ weight_normalization = RZero
        /\ has_norm = FALSE
        /\ processed_students = <<>>
        /\ scales = [letter |-> <<>>, modified |-> <<>>]
        /\ call = NoCall
        /\ fn = NoFn
        /\ roster = NoRoster

\* processor.process_grades(drop_lowest=config_data.get('drop_lowest', {}), ...)
ProcessGrades ==
    \E only_graded \in BOOLEAN, detect_anomalies \in BOOLEAN :
        process_grades(drop_config, detect_anomalies, only_graded)

Next == ProcessGrades

Spec == Init /\ [][Next]_vars

-----------------------------------------------------------------------------
(* GradeConfiguration(...) and letter_grade(...) called on their own *)

\* the gradebook and processor variables while a single function is exercised
IdleProcessor ==
    /\ assignments = EmptyFn
    /\ students = <<>>
    /\ config = GradeConfiguration(EmptyFn, TRUE)
    /\ assignment_to_type = EmptyFn
    /\ drop_config = EmptyFn
    /\ graded_assignments = {}
    /\ has_graded = FALSE
    /\ weight_normalization = RZero
    /\ has_norm = FALSE
    /\ processed_students = <<>>
    /\ scales = [letter |-> <<>>, modified |-> <<>>]
    /\ call = NoCall

\* weights, in weight units, around the limits the constructor tests
ConfigWeights ==
    {0, WeightEps, 2 * WeightEps, 40000000, 60000000,
     WeightOne - 2 * WeightEps, WeightOne - WeightEps, WeightOne,
     WeightOne + WeightEps, WeightOne + 2 * WeightEps}

InitConfig ==
    /\ IdleProcessor
    /\ roster = NoRoster
    /\ \E hw \in ConfigWeights, qz \in ConfigWeights, allow_partial \in BOOLEAN :
           fn = [op |-> "GradeConfiguration",
                 args |-> [grade_types |-> [t \in {"Homework", "Quizzes"} |->
                                               IF t = "Homework" THEN hw ELSE qz],
                           allow_partial |-> allow_partial],
                 done |-> FALSE]

\* GradeConfiguration(grade_types, allow_partial=...)
Construct ==
    /\ fn.op = "GradeConfiguration" /\ ~fn.done
    /\ fn' = [op |-> fn.op, args |-> fn.args, done |-> TRUE,
              result |-> GradeConfiguration(fn.args.grade_types, fn.args.allow_partial)]
    /\ UNCHANGED <<assignments, students, config, assignment_to_type,
                   graded_assignments, has_graded, weight_normalization, has_norm,
                   processed_students, scales, drop_config, call, roster>>

NextConfig == Construct

SpecConfig == InitConfig /\ [][NextConfig]_vars

\* the scale of the letter-grade example: F, A-, A, A+ (given out of order)
ExampleScale ==
    << <<Frac(94, 100), "A">>, <<Frac(0, 100), "F">>,
       <<Frac(97, 100), "A+">>, <<Frac(90, 100), "A-">> >>

\* a scale whose lowest threshold is above zero
PassScale == << <<Frac(70, 100), "Honors">>, <<Frac(50, 100), "Pass">> >>

\* <<>> stands for no scale given
LetterScales == {<<>>, ExampleScale, PassScale}

LetterPercentages ==
    {Frac(k, 1000) : k \in {0, 100, 450, 499, 500, 600, 609, 610, 699, 700, 740,
                            770, 800, 840, 870, 899, 900, 939, 940, 969, 970, 999,
                            1000, 1100}}

InitLetter ==
    /\ IdleProcessor
    /\ roster = NoRoster
    /\ \E percentage \in LetterPercentages, scale \in LetterScales :
           fn = [op |-> "letter_grade",
                 args |-> [percentage |-> percentage, scale |-> scale],
                 done |-> FALSE]

\* letter_grade(percentage, scale)
LetterGrade ==
    /\ fn.op = "letter_grade" /\ ~fn.done
    /\ fn' = [op |-> fn.op, args |-> fn.args, done |-> TRUE,
              result |-> letter_grade(fn.args.percentage, ScaleOrDefault(fn.args.scale))]
    /\ UNCHANGED <<assignments, students, config, assignment_to_type,
                   graded_assignments, has_graded, weight_normalization, has_norm,
                   processed_students, scales, drop_config, call, roster>>

NextLetter == LetterGrade

SpecLetter == InitLetter /\ [][NextLetter]_vars

-----------------------------------------------------------------------------
(* Processors constructed with letter_grade_scale and modified_grade_scale *)

\* the scores of the first student when the scales are varied
ScaleScores == {5, 8, 9}

\* <<>> stands for a scale that is not given (None)
ProcessorScales ==
    {[letter |-> l, modified |-> m] : l \in LetterScales, m \in LetterScales}

\* the first student has the first two assignments, with or without the third
InitScales ==
    /\ \E course \in {CourseDropLowest, CoursePartial} :
       \E slots \in {{<<101, 1>>, <<101, 2>>}, {<<101, 1>>, <<101, 2>>, <<101, 3>>}} :
       \E val \in [slots -> {[score |-> v, excused |-> FALSE] : v \in ScaleScores}] :
           LET asg == LoadAssignments(course.assignments)
               cfg == GradeConfiguration(GroupWeights(course.groups), TRUE)
           IN  /\ ~cfg.raised
               /\ assignments = asg
               /\ students = LoadStudents(course.students, SubmissionList(slots, val), asg)
               /\ config = cfg
               /\ assignment_to_type = AssignmentToType(course.groups, asg)
               /\ drop_config \in DropOptions(cfg)
    /\ scales \in ProcessorScales
    /\ graded_assignments = {}
    /\ has_graded = FALSE
    /\ weight_normalization = RZero
    /\ has_norm = FALSE
    /\ processed_students = <<>>
    /\ call = NoCall
    /\ fn = NoFn
    /\ roster = NoRoster

SpecScales == InitScales /\ [][Next]_vars

-----------------------------------------------------------------------------
(* A class of six students and a test student, two categories *)

CourseClass ==
    [assignments |->
        << [id |-> 1, name |-> "PS1", points_possible |-> 10, assignment_group_id |-> 1],
           [id |-> 2, name |-> "PS2", points_possible |-> 10, assignment_group_id |-> 1],
           [id |-> 3, name |-> "PS3", points_possible |-> 10, assignment_group_id |-> 1],
           [id |-> 4, name |-> "Final", points_possible |-> 100, assignment_group_id |-> 2] >>,
     groups |-> << [id |-> 1, name |-> "Problem Sets", group_weight |-> 50],
                   [id |-> 2, name |-> "Final", group_weight |-> 50] >>,
     students |-> << [id |-> 101, name |-> "Alice"], [id |-> 102, name |-> "Bob"],
                     [id |-> 103, name |-> "Carol"], [id |-> 104, name |-> "Dave"],
                     [id |-> 105, name |-> "Erin"], [id |-> 106, name |-> "Frank"],
                     [id |-> 107, name |-> "Perfect Score"] >>]

\* the problem-set scores (taken in ascending order) and the final scores of the
\* first student; the test student holds full marks throughout
ClassScores == {0, 5, 12}
ClassFinals == {None, 50, 100}

\* what the five other students hold: nothing, 5/10 and 50/100 throughout, or
\* the same with the last of them at 100/100 in the final
ClassProfiles == {"empty", "even", "top"}

\* the (student, assignment) pairs that have a submission
ClassSlots(final, profile) ==
    ({101} \X {1, 2, 3})
    \cup (IF final # None THEN {<<101, 4>>} ELSE {})
    \cup (IF profile # "empty" THEN {102, 103, 104, 105, 106} \X {1, 2, 3, 4} ELSE {})
    \cup ({107} \X {1, 2, 3, 4})

\* the score of a submission of the class
ClassScore(slot, ps, final, profile) ==
    IF slot[1] = 101 THEN (IF slot[2] = 4 THEN final ELSE ps[slot[2]])
    ELSE IF slot[1] = 107 THEN (IF slot[2] = 4 THEN 100 ELSE 10)
    ELSE IF slot[2] = 4 THEN (IF profile = "top" /\ slot[1] = 106 THEN 100 ELSE 50)
    ELSE 5

InitClass ==
    /\ \E ps \in {f \in [{1, 2, 3} -> ClassScores] : f[1] <= f[2] /\ f[2] <= f[3]},
          final \in ClassFinals, profile \in ClassProfiles :
           LET asg == LoadAssignments(CourseClass.assignments)
               cfg == GradeConfiguration(GroupWeights(CourseClass.groups), TRUE)
               slots == ClassSlots(final, profile)
               val == [x \in slots |-> [score |-> ClassScore(x, ps, final, profile),
                                        excused |-> FALSE]]
           IN  /\ ~cfg.raised
               /\ assignments = asg
               /\ students = LoadStudents(CourseClass.students,
                                          SubmissionList(slots, val), asg)
               /\ config = cfg
               /\ assignment_to_type = AssignmentToType(CourseClass.groups, asg)
               /\ drop_config \in DropOptions(cfg)
    /\ scales = [letter |-> <<>>, modified |-> <<>>]
    /\ graded_assignments = {}
    /\ has_graded = FALSE
    /\ weight_normalization = RZero
    /\ has_norm = FALSE
    /\ processed_students = <<>>
    /\ call = NoCall
    /\ fn = NoFn
    /\ roster = NoRoster

SpecClass == InitClass /\ [][Next]_vars

-----------------------------------------------------------------------------
(* A category of four assignments, some of which have the same name *)

\* the names of the four assignments: all different, the first two the same,
\* all the same
AssignmentNames ==
    { <<"Quiz 1", "Quiz 2", "Quiz 3", "Quiz 4">>,
      <<"Quiz", "Quiz", "Retake", "Makeup">>,
      <<"Quiz", "Quiz", "Quiz", "Quiz">> }

CourseNames(names) ==
    [assignments |->
        [k \in 1..4 |-> [id |-> k, name |-> names[k], points_possible |-> 10,
                         assignment_group_id |-> 1]],
     groups |-> << [id |-> 1, name |-> "Quizzes", group_weight |-> 100] >>,
     students |-> << [id |-> 101, name |-> "Alice"] >>]

\* the score of each assignment's record; None: the student has no record
NameScores == {None, 0, 5, 12}

InitNames ==
    /\ \E names \in AssignmentNames, sc \in [1..4 -> NameScores] :
           LET course == CourseNames(names)
               asg == LoadAssignments(course.assignments)
               cfg == GradeConfiguration(GroupWeights(course.groups), TRUE)
               slots == {x \in {101} \X (1..4) : sc[x[2]] # None}
               val == [x \in slots |-> [score |-> sc[x[2]], excused |-> FALSE]]
           IN  /\ ~cfg.raised
               /\ assignments = asg
               /\ students = LoadStudents(course.students, SubmissionList(slots, val), asg)
               /\ config = cfg
               /\ assignment_to_type = AssignmentToType(course.groups, asg)
               /\ drop_config \in DropOptions(cfg)
    /\ scales = [letter |-> <<>>, modified |-> <<>>]
    /\ graded_assignments = {}
    /\ has_graded = FALSE
    /\ weight_normalization = RZero
    /\ has_norm = FALSE
    /\ processed_students = <<>>
    /\ call = NoCall
    /\ fn = NoFn
    /\ roster = NoRoster

SpecNames == InitNames /\ [][Next]_vars

-----------------------------------------------------------------------------
(* Sorted views of the processed students *)

\* three students, listed out of name order, and one assignment
CourseSorted ==
    [assignments |->
        << [id |-> 1, name |-> "HW1", points_possible |-> 10, assignment_group_id |-> 1] >>,
     groups |-> << [id |-> 1, name |-> "Homework", group_weight |-> 100] >>,
     students |-> << [id |-> 101, name |-> "Carol"], [id |-> 102, name |-> "Alice"],
                     [id |-> 103, name |-> "Bob"] >>]

\* the score of each student's record; None: the student has no record
SortedScores == {None, 5, 9}

\* the values of 'by' passed to get_sorted_students
SortKeys == {"name", "grade", "percentage", "id"}

InitSorted ==
    /\ \E sc \in [{101, 102, 103} -> SortedScores] :
           LET asg == LoadAssignments(CourseSorted.assignments)
               cfg == GradeConfiguration(GroupWeights(CourseSorted.groups), TRUE)
               slots == {x \in {101, 102, 103} \X {1} : sc[x[1]] # None}
               val == [x \in slots |-> [score |-> sc[x[1]], excused |-> FALSE]]
           IN  /\ ~cfg.raised
               /\ assignments = asg
               /\ students = LoadStudents(CourseSorted.students,
                                          SubmissionList(slots, val), asg)
               /\ config = cfg
               /\ assignment_to_type = AssignmentToType(CourseSorted.groups, asg)
               /\ drop_config \in DropOptions(cfg)
    /\ scales = [letter |-> <<>>, modified |-> <<>>]
    /\ graded_assignments = {}
    /\ has_graded = FALSE
    /\ weight_normalization = RZero
    /\ has_norm = FALSE
    /\ processed_students = <<>>
    /\ call = NoCall
    /\ fn = NoFn
    /\ roster = NoRoster

\* processor.get_sorted_students(by=..., ascending=...)
GetSortedStudents ==
    \E by \in SortKeys, ascending \in BOOLEAN :
        /\ fn' = [op |-> "get_sorted_students", by |-> by, ascending |-> ascending,
                  result |-> get_sorted_students(processed_students, by, ascending)]
        /\ UNCHANGED <<assignments, students, config, assignment_to_type,
                       graded_assignments, has_graded, weight_normalization, has_norm,
                       processed_students, scales, drop_config, call, roster>>

NextSorted == ProcessGrades \/ GetSortedStudents

SpecSorted == InitSorted /\ [][NextSorted]_vars

-----------------------------------------------------------------------------
(* A gradebook that is loaded again while the processor stays *)

\* the gradebook of test_grades.py, its assignments in one group
CourseSynthetic ==
    [assignments |->
        << [id |-> 1, name |-> "HW1", points_possible |-> 100, assignment_group_id |-> 1],
           [id |-> 2, name |-> "HW2", points_possible |-> 50, assignment_group_id |-> 1] >>,
     groups |-> << [id |-> 1, name |-> "Homework", group_weight |-> 100] >>,
     students |-> << [id |-> 10, name |-> "Alice"], [id |-> 11, name |-> "Bob"],
                     [id |-> 12, name |-> "Carol"] >>]

\* the student lists a load is given: everyone, without Carol, Carol alone
StudentLists ==
    { CourseSynthetic.students,
      SubSeq(CourseSynthetic.students, 1, 2),
      SubSeq(CourseSynthetic.students, 3, 3) }

\* what Carol's submission for an assignment is: none, a score of 25, a record
\* without a score, an excused record
CarolRecords == {"absent", "scored", "unscored", "excused"}

\* the submission list of a load: Alice and Bob as in test_grades.py
SyntheticSubmissions(c1, c2) ==
    LET carol == [aid \in {1, 2} |-> IF aid = 1 THEN c1 ELSE c2]
        slots == ({10, 11} \X {1, 2}) \cup {x \in {12} \X {1, 2} : carol[x[2]] # "absent"}
        val == [x \in slots |->
                   IF x[1] = 10 THEN [score |-> IF x[2] = 1 THEN 95 ELSE 45, excused |-> FALSE]
                   ELSE IF x[1] = 11
                   THEN [score |-> IF x[2] = 1 THEN 80 ELSE 50, excused |-> FALSE]
                   ELSE [score |-> IF carol[x[2]] = "unscored" THEN None ELSE 25,
                         excused |-> carol[x[2]] = "excused"]]
    IN  SubmissionList(slots, val)

InitReload ==
    /\ \E ulist \in StudentLists, c1 \in CarolRecords, c2 \in CarolRecords :
           LET asg == LoadAssignments(CourseSynthetic.assignments)
               cfg == GradeConfiguration(GroupWeights(CourseSynthetic.groups), TRUE)
           IN  /\ ~cfg.raised
               /\ assignments = asg
               /\ students = LoadStudents(ulist, SyntheticSubmissions(c1, c2), asg)
               /\ config = cfg
               /\ assignment_to_type = AssignmentToType(CourseSynthetic.groups, asg)
               /\ drop_config \in DropOptions(cfg)
    /\ scales = [letter |-> <<>>, modified |-> <<>>]
    /\ graded_assignments = {}
    /\ has_graded = FALSE
    /\ weight_normalization = RZero
    /\ has_norm = FALSE
    /\ processed_students = <<>>
    /\ call = NoCall
    /\ fn = NoFn
    /\ roster = NoRoster

\* gradebook.load_from_data(assignments, submissions, students) on the gradebook
\* the processor holds
LoadFromData ==
    \E ulist \in StudentLists, c1 \in CarolRecords, c2 \in CarolRecords :
        LET asg == LoadAssignments(CourseSynthetic.assignments)
        IN  /\ assignments' = asg
            /\ students' = LoadStudents(ulist, SyntheticSubmissions(c1, c2), asg)
            /\ fn' = [op |-> "load_from_data"]
            /\ UNCHANGED <<config, assignment_to_type, graded_assignments, has_graded,
                           weight_normalization, has_norm, processed_students, scales,
                           drop_config, call, roster>>

NextReload == ProcessGrades \/ LoadFromData

SpecReload == InitReload /\ [][NextReload]_vars

-----------------------------------------------------------------------------
(* A processor constructed from a manual grade_config *)

\* the score of each record of the first student; None: no record
ManualScores == {None, 0, 9}

\* GradeProcessor(gradebook, grade_config=GradeConfiguration(grade_types,
\* allow_partial), letter_grade_scale=...) with the weights of CoursePartial
InitManual ==
    /\ \E sc \in [{1, 2, 3} -> ManualScores], allow_partial \in BOOLEAN :
           LET asg == LoadAssignments(CoursePartial.assignments)
               cfg == GradeConfiguration(GroupWeights(CoursePartial.groups), allow_partial)
               slots == {x \in {101} \X {1, 2, 3} : sc[x[2]] # None}
               val == [x \in slots |-> [score |-> sc[x[2]], excused |-> FALSE]]
           IN  /\ ~cfg.raised
               /\ assignments = asg
               /\ students = LoadStudents(CoursePartial.students,
                                          SubmissionList(slots, val), asg)
               /\ config = cfg
               /\ assignment_to_type = _build_assignment_map_legacy(asg, CoursePartial.groups)
               /\ drop_config \in DropOptions(cfg)
    /\ scales \in ProcessorScales
    /\ graded_assignments = {}
    /\ has_graded = FALSE
    /\ weight_normalization = RZero
    /\ has_norm = FALSE
    /\ processed_students = <<>>
    /\ call = NoCall
    /\ fn = NoFn
    /\ roster = NoRoster

SpecManual == InitManual /\ [][Next]_vars

-----------------------------------------------------------------------------
(* Classes of two to six students, one assignment *)

CourseSmall ==
    [assignments |->
        << [id |-> 1, name |-> "HW1", points_possible |-> 10, assignment_group_id |-> 1] >>,
     groups |-> << [id |-> 1, name |-> "Homework", group_weight |-> 100] >>,
     students |-> << [id |-> 101, name |-> "Alice"], [id |-> 102, name |-> "Bob"],
                     [id |-> 103, name |-> "Carol"], [id |-> 104, name |-> "Dave"],
                     [id |-> 105, name |-> "Erin"], [id |-> 106, name |-> "Frank"] >>]

\* the sizes of the class and the score each student has on the assignment
ClassSizes == 2..6
SmallScores == {0, 10, 12}

InitSmall ==
    /\ \E n \in ClassSizes :
       \E sc \in [{CourseSmall.students[k].id : k \in 1..n} -> SmallScores] :
           LET asg == LoadAssignments(CourseSmall.assignments)
               cfg == GradeConfiguration(GroupWeights(CourseSmall.groups), TRUE)
               slots == (DOMAIN sc) \X {1}
               val == [x \in slots |-> [score |-> sc[x[1]], excused |-> FALSE]]
           IN  /\ ~cfg.raised
               /\ assignments = asg
               /\ students = LoadStudents(SubSeq(CourseSmall.students, 1, n),
                                          SubmissionList(slots, val), asg)
               /\ config = cfg
               /\ assignment_to_type = AssignmentToType(CourseSmall.groups, asg)
               /\ drop_config \in DropOptions(cfg)
    /\ scales = [letter |-> <<>>, modified |-> <<>>]
    /\ graded_assignments = {}
    /\ has_graded = FALSE
    /\ weight_normalization = RZero
    /\ has_norm = FALSE
    /\ processed_students = <<>>
    /\ call = NoCall
    /\ fn = NoFn
    /\ roster = NoRoster

SpecSmall == InitSmall /\ [][Next]_vars

-----------------------------------------------------------------------------
(* Roster (canvas/roster.py) *)

\* most users in the list passed to add_users or set_users
MaxUsers == 2

\* Roster(roles): an empty bucket for every role
Roster(roles) ==
    [roles |-> roles,
     data |-> [role \in {roles[k] : k \in DOMAIN roles} |-> <<>>],
     last |-> [op |-> "Roster"]]

\* _ensure_role: whether it raises ValueError
_ensure_role(roles, role) == role \notin {roles[k] : k \in DOMAIN roles}

\* _normalize_user of a dict that has an id: the keys id and name are copied,
\* any other key of the dict is left out
_normalize_user(user) == [id |-> user.id, name |-> user.name]

\* bucket[nu["id"]] = nu on a dict kept in insertion order
BucketSet(bucket, nu) ==
    IF \E k \in DOMAIN bucket : bucket[k].id = nu.id
    THEN [k \in DOMAIN bucket |-> IF bucket[k].id = nu.id THEN nu ELSE bucket[k]]
    ELSE Append(bucket, nu)

\* the bucket set_users builds from the users
RECURSIVE BucketOf(_)
BucketOf(users) ==
    IF users = <<>> THEN <<>>
    ELSE BucketSet(BucketOf(SubSeq(users, 1, Len(users) - 1)),
                   _normalize_user(users[Len(users)]))

\* set_users(role, users): the buckets afterwards and whether it raised
set_users(r, role, users) ==
    IF _ensure_role(r.roles, role) THEN [data |-> r.data, raised |-> TRUE]
    ELSE [data |-> [r.data EXCEPT ![role] = BucketOf(users)], raised |-> FALSE]

\* add_user(role, user)
add_user(r, role, user) ==
    IF _ensure_role(r.roles, role) THEN [data |-> r.data, raised |-> TRUE]
    ELSE [data |-> [r.data EXCEPT ![role] = BucketSet(@, _normalize_user(user))],
          raised |-> FALSE]

\* add_users(role, users): add_user for each user, stopping where it raises
RECURSIVE add_users(_, _, _)
add_users(r, role, users) ==
    IF users = <<>> THEN [data |-> r.data, raised |-> FALSE]
    ELSE LET first == add_user(r, role, Head(users))
         IN  IF first.raised THEN first
             ELSE add_users([r EXCEPT !.data = first.data], role, Tail(users))

\* remove_user(role, user_id): self._data[role].pop(user_id, None)
remove_user(r, role, user_id) ==
    IF _ensure_role(r.roles, role) THEN [data |-> r.data, raised |-> TRUE]
    ELSE [data |-> [r.data EXCEPT ![role] = SelectSeq(@, LAMBDA u : u.id # user_id)],
          raised |-> FALSE]

\* clear_role(role)
clear_role(r, role) ==
    IF _ensure_role(r.roles, role) THEN [data |-> r.data, raised |-> TRUE]
    ELSE [data |-> [r.data EXCEPT ![role] = <<>>], raised |-> FALSE]

\* clear_all()
clear_all(r) == [data |-> [role \in DOMAIN r.data |-> <<>>], raised |-> FALSE]

\* counts()
counts(r) == [role \in {r.roles[k] : k \in DOMAIN r.roles} |-> Len(r.data[role])]

\* the roles the roster is constructed with, and the role names passed to its
\* operations ("guests" is not a role of the roster)
RosterRoles == <<"students", "tas">>
RoleNames == {"students", "tas", "guests"}

\* the user dicts passed in: two of them have the same id
RosterUsers ==
    {[id |-> 1, name |-> "Alice"], [id |-> 1, name |-> "Alicia"], [id |-> 2, name |-> "Bob"]}
UserLists ==
    UNION {[1..n -> RosterUsers] : n \in 0..MaxUsers}
UserIds == {1, 2, 3}

InitRoster ==
    /\ IdleProcessor
    /\ fn = NoFn
    /\ roster = Roster(RosterRoles)

\* the roster after a call: its buckets replaced, the call recorded
AfterCall(op, role, users, res) ==
    [roles |-> roster.roles, data |-> res.data,
     last |-> [op |-> op, role |-> role, users |-> users, raised |-> res.raised]]

ProcessorUnchanged ==
    UNCHANGED <<assignments, students, config, assignment_to_type, graded_assignments,
                has_graded, weight_normalization, has_norm, processed_students, scales,
                drop_config, call, fn>>

SetUsers ==
    \E role \in RoleNames, users \in UserLists :
        /\ roster' = AfterCall("set_users", role, users, set_users(roster, role, users))
        /\ ProcessorUnchanged

AddUser ==
    \E role \in RoleNames, user \in RosterUsers :
        /\ roster' = AfterCall("add_user", role, <<user>>, add_user(roster, role, user))
        /\ ProcessorUnchanged

AddUsers ==
    \E role \in RoleNames, users \in UserLists :
        /\ roster' = AfterCall("add_users", role, users, add_users(roster, role, users))
        /\ ProcessorUnchanged

RemoveUser ==
    \E role \in RoleNames, user_id \in UserIds :
        /\ roster' = AfterCall("remove_user", role, <<[id |-> user_id]>>,
                               remove_user(roster, role, user_id))
        /\ ProcessorUnchanged

ClearRole ==
    \E role \in RoleNames :
        /\ roster' = AfterCall("clear_role", role, <<>>, clear_role(roster, role))
        /\ ProcessorUnchanged

ClearAll ==
    /\ roster' = AfterCall("clear_all", "", <<>>, clear_all(roster))
    /\ ProcessorUnchanged

NextRoster == SetUsers \/ AddUser \/ AddUsers \/ RemoveUser \/ ClearRole \/ ClearAll

SpecRoster == InitRoster /\ [][NextRoster]_vars

-----------------------------------------------------------------------------
(* Properties: shared vocabulary *)

Range(s) == {s[k] : k \in DOMAIN s}

\* the gradebook's student a processed record was computed from
StudentById(uid) == CHOOSE s \in Range(students) : s.id = uid

\* some student of the gradebook holds a non-excused score above zero for aid
HasPositiveScore(aid) ==
    \E s \in Range(students) : \E r \in Range(s.scores) :
        r.assignment_id = aid /\ ~r.excused /\ r.score # None /\ r.score > 0

\* the category an assignment belongs to ("" when it belongs to none)
CategoryOf(aid) ==
    IF aid \in DOMAIN assignment_to_type THEN assignment_to_type[aid] ELSE ""

\* the student's non-excused records of a category among the counted assignments
CountedRecords(student, type_name, counted) ==
    SelectSeq(student.scores,
              LAMBDA r : /\ ~r.excused
                         /\ r.assignment_id \in counted
                         /\ type_name # ""
                         /\ CategoryOf(r.assignment_id) = type_name)

\* score / points_possible of a record, zero when either is missing
Fraction(r) ==
    IF r.score # None /\ r.points_possible # None /\ r.points_possible > 0
    THEN Frac(r.score, r.points_possible) ELSE RZero

Fractions(recs) == [k \in 1..Len(recs) |-> Fraction(recs[k])]

\* the points of a record: its score when a fraction can be formed, else zero
Points(r) ==
    IF r.score # None /\ r.points_possible # None /\ r.points_possible > 0
    THEN r.score ELSE 0

\* the sum of the k lowest of a sequence of fractions
RECURSIVE SumLowest(_, _)
SumLowest(fr, k) ==
    IF k = 0 \/ fr = <<>> THEN RZero
    ELSE LET m == CHOOSE i \in 1..Len(fr) : \A j \in 1..Len(fr) : RLe(fr[i], fr[j])
             rest == [j \in 1..(Len(fr) - 1) |-> IF j < m THEN fr[j] ELSE fr[j + 1]]
         IN  RAdd(fr[m], SumLowest(rest, k - 1))

\* a sequence of fractions without its k lowest
RECURSIVE WithoutLowest(_, _)
WithoutLowest(fr, k) ==
    IF k = 0 \/ fr = <<>> THEN fr
    ELSE LET m == CHOOSE i \in 1..Len(fr) : \A j \in 1..Len(fr) : RLe(fr[i], fr[j])
             rest == [j \in 1..(Len(fr) - 1) |-> IF j < m THEN fr[j] ELSE fr[j + 1]]
         IN  WithoutLowest(rest, k - 1)

\* the drop count the last run was given for a category
DropCount(type_name) ==
    IF type_name \in DOMAIN call.drop_lowest THEN call.drop_lowest[type_name] ELSE 0

\* the fractions of the assignments of a category that survive the drop in the
\* last run
SurvivingFractions(student, type_name) ==
    LET fr == Fractions(CountedRecords(student, type_name, graded_assignments))
        k == DropCount(type_name)
    IN  IF k > 0 /\ Len(fr) > k THEN WithoutLowest(fr, k) ELSE fr

\* the variance test for the fractions of a category: three or more, sample
\* standard deviation above 0.20 (compared as squares), mean above 0.30
VarianceHolds(fr) ==
    /\ Len(fr) >= 3
    /\ RLt(Frac(4, 100), SampleVariance(fr))
    /\ RLt(Frac(30, 100), Mean(fr))

\* the gradebook with one record of one student taken out
WithoutRecord(studs, uid, aid) ==
    [k \in 1..Len(studs) |->
        IF studs[k].id = uid
        THEN [studs[k] EXCEPT !.scores = SelectSeq(@, LAMBDA r : r.assignment_id # aid)]
        ELSE studs[k]]

\* the gradebook with the score of one record of one student changed
WithScore(studs, uid, aid, v) ==
    [k \in 1..Len(studs) |->
        IF studs[k].id = uid
        THEN [studs[k] EXCEPT !.scores =
                 [j \in 1..Len(@) |-> IF @[j].assignment_id = aid
                                      THEN [@[j] EXCEPT !.score = v] ELSE @[j]]]
        ELSE studs[k]]

\* the records the last run leaves when the gradebook holds studs instead
RerunOn(studs) ==
    LET graded == GradedFor(call.only_graded, assignments, studs)
        norm == IF call.only_graded
                THEN _calculate_graded_category_weights(graded, assignment_to_type, config)
                ELSE weight_normalization
        processed == ProcessEachStudent(studs, <<>>, call.drop_lowest, TRUE, graded,
                                        assignment_to_type, config, has_norm, norm,
                                        assignments, scales)
    IN  IF call.detect_anomalies THEN _detect_anomalies(processed, config).processed
        ELSE processed

\* the records a newly constructed processor leaves after one run on the
\* gradebook with the arguments of the last run
FreshRun ==
    LET graded == GradedFor(call.only_graded, assignments, students)
        norm == IF call.only_graded
                THEN _calculate_graded_category_weights(graded, assignment_to_type, config)
                ELSE RZero
        processed == ProcessEachStudent(students, <<>>, call.drop_lowest, TRUE, graded,
                                        assignment_to_type, config, call.only_graded, norm,
                                        assignments, scales)
    IN  IF call.detect_anomalies THEN _detect_anomalies(processed, config).processed
        ELSE processed

\* a sequence with the elements at two places exchanged
Transposed(seq, i, j) ==
    [k \in 1..Len(seq) |-> IF k = i THEN seq[j] ELSE IF k = j THEN seq[i] ELSE seq[k]]

\* a record without its anomaly list
WithoutAnomalies(p) == [p EXCEPT !.anomalies = <<>>]

\* the record the last run computes for one student taken alone
RecordAlone(student) ==
    _process_student(student, call.drop_lowest, TRUE, graded_assignments,
                     assignment_to_type, config, has_norm, weight_normalization,
                     assignments, scales.letter, scales.modified)

\* the records the per-student pass of the last run leaves when it takes the
\* students in the order of studs
PassOver(studs) ==
    ProcessEachStudent(studs, <<>>, call.drop_lowest, TRUE, graded_assignments,
                       assignment_to_type, config, has_norm, weight_normalization,
                       assignments, scales)

\* the categories the assignments of the gradebook belong to
Categories == {CategoryOf(aid) : aid \in DOMAIN assignments} \ {""}

\* the configured weight of a category as a fraction, zero when it has none
ConfiguredWeight(type_name) ==
    IF type_name \in DOMAIN config.grade_types
    THEN WeightFrac(config.grade_types[type_name]) ELSE RZero

\* the label of the greatest threshold of a scale that is at most the percentage,
\* the label of the lowest threshold when there is none
LabelFor(percentage, scale) ==
    LET reached == {k \in DOMAIN scale : RLe(scale[k][1], percentage)}
        lowest == CHOOSE k \in DOMAIN scale :
                      \A j \in DOMAIN scale : RLe(scale[k][1], scale[j][1])
        greatest == CHOOSE k \in reached :
                        \A j \in reached : RLe(scale[j][1], scale[k][1])
    IN  IF reached = {} THEN scale[lowest][2] ELSE scale[greatest][2]

\* the label of the lowest threshold of a scale
LowestLabel(scale) ==
    scale[CHOOSE k \in DOMAIN scale :
              \A j \in DOMAIN scale : RLe(scale[k][1], scale[j][1])][2]

\* the records of the last run's arguments on a newly constructed processor
\* that is given the groups of a course instead of a grade_config
GroupsRun(course) ==
    LET a2t == AssignmentToType(course.groups, assignments)
        cfg == GradeConfiguration(GroupWeights(course.groups), TRUE)
        graded == GradedFor(call.only_graded, assignments, students)
        norm == IF call.only_graded
                THEN _calculate_graded_category_weights(graded, a2t, cfg)
                ELSE RZero
    IN  ProcessEachStudent(students, <<>>, call.drop_lowest, TRUE, graded, a2t, cfg,
                           call.only_graded, norm, assignments, scales)

\* the names of the model that contain 'Perfect' or 'Test Student'
ExcludedNames == {"Perfect Score", "Test Student"}

HasResult(p, type_name) == \E g \in Range(p.grade_types) : g.type_name = type_name

AverageIn(p, type_name) ==
    (CHOOSE g \in Range(p.grade_types) : g.type_name = type_name).average_percentage

\* the category averages of the records of a population that have the category
AveragesOf(population, type_name) ==
    LET members == SelectSeq(population, LAMBDA p : HasResult(p, type_name))
    IN  [i \in 1..Len(members) |-> AverageIn(members[i], type_name)]

\* the gap test for two category averages: the higher above 0.90 and more than
\* 0.20 apart
GapHolds(a, b) ==
    /\ RLt(Frac(90, 100), IF RLt(a, b) THEN b ELSE a)
    /\ RLt(Frac(20, 100), IF RLt(a, b) THEN RSub(b, a) ELSE RSub(a, b))

\* the class-relative test for an average among the class averages xs: z-score
\* above 2.0 (compared as squares) and average above 0.95
OutlierHolds(avg, xs) ==
    /\ Len(xs) >= 2
    /\ LET diff == RSub(avg, Mean(xs))
           var == SampleVariance(xs)
       IN  /\ RLt(RZero, var)
           /\ RLt(RZero, diff)
           /\ RLt(RMul(RInt(4), var), RMul(diff, diff))
           /\ RLt(Frac(95, 100), avg)

\* the findings of one kind in a student's anomaly list, in order
FindingsOfKind(p, kind) == SelectSeq(p.anomalies, LAMBDA f : f.kind = kind)

\* the place of a kind of finding in the order of the checks
KindRank(kind) == CASE kind = "gap" -> 1 [] kind = "variance" -> 2 [] kind = "outlier" -> 3

\* the outlier findings of a student for a category
OutlierFindingsFor(p, type_name) ==
    SelectSeq(FindingsOfKind(p, "outlier"), LAMBDA f : f.type_name = type_name)

\* the gap findings of a student that name the two categories, in either order
GapFindingsFor(p, t1, t2) ==
    SelectSeq(FindingsOfKind(p, "gap"),
              LAMBDA f : {f.high_type, f.low_type} = {t1, t2})

\* the scores an excused record is given when its score is varied
ExcusedScores == {None, 0, 12}

-----------------------------------------------------------------------------
(* Properties *)

\* C1: after a run with only_graded = true the normalization factor is the sum of
\* the nominal weights of the categories holding at least one graded assignment
\* (1.0 when that sum is 0), every processed student carries that same factor,
\* and the normalized percentage is the final percentage divided by it.
C1_GradedOnlyNormalization ==
    (call.ran /\ call.only_graded) =>
        LET gradedCats == {t \in DOMAIN config.grade_types :
                              \E aid \in DOMAIN assignments :
                                  CategoryOf(aid) = t /\ HasPositiveScore(aid)}
            nominal == SumValues([t \in gradedCats |-> config.grade_types[t]])
            factor == IF nominal = 0 THEN ROne ELSE WeightFrac(nominal)
        IN  \A p \in Range(processed_students) :
                /\ p.weight_normalization_factor = factor
                /\ p.normalized_percentage = RDiv(p.final_percentage, factor)

\* C1's example: weights 40% / 60%, only the 40% category graded, a student
\* averaging 90% in it is normalized to 90%, the raw total being 36%
C1_Witness ==
    /\ call.ran /\ call.only_graded
    /\ config.grade_types = GroupWeights(CoursePartial.groups)
    /\ Len(processed_students) = 2
    /\ \E p \in Range(processed_students) :
           /\ p.name = "Alice"
           /\ p.final_percentage = Frac(36, 100)
           /\ p.weight_normalization_factor = Frac(40, 100)
           /\ p.normalized_percentage = Frac(90, 100)

\* C2: a category's average is the unweighted mean of the n - k highest
\* fractions of the student's counted non-excused records when the drop count k
\* is above zero and n > k, and the mean of all n otherwise.
C2_DropLowestAverage ==
    call.ran =>
        \A p \in Range(processed_students) : \A r \in Range(p.grade_types) :
            LET fr == Fractions(CountedRecords(StudentById(p.user_id), r.type_name,
                                               graded_assignments))
                n == Len(fr)
                k == DropCount(r.type_name)
            IN  r.average_percentage =
                    IF k > 0 /\ n > k
                    THEN RDiv(RSub(RSum(fr), SumLowest(fr, k)), RInt(n - k))
                    ELSE RDiv(RSum(fr), RInt(n))

\* C2's example: fractions 50%, 80%, 90% with k = 1 average to 85%
C2_Witness ==
    /\ call.ran /\ DropCount("Problem Sets") = 1
    /\ \E p \in Range(processed_students) : \E r \in Range(p.grade_types) :
           /\ r.type_name = "Problem Sets"
           /\ Fractions(CountedRecords(StudentById(p.user_id), r.type_name,
                                        graded_assignments))
                  \in {<<Frac(50, 100), Frac(80, 100), Frac(90, 100)>>,
                       <<Frac(90, 100), Frac(50, 100), Frac(80, 100)>>}
           /\ r.num_assignments = 2
           /\ r.average_percentage = Frac(85, 100)

\* C3: GradeConfiguration raises BadGradeTypesWeight exactly when the weights sum
\* to more than 1 + 1e-8, or to less than 1e-8, or allow_partial is false and the
\* sum differs from 1 by more than 1e-8; otherwise it is constructed with the
\* weights it was given.
C3_WeightValidation ==
    (fn.op = "GradeConfiguration" /\ fn.done) =>
        LET weights == fn.args.grade_types
            sum == weights["Homework"] + weights["Quizzes"]
            rejected == \/ sum > WeightOne + WeightEps
                        \/ sum < WeightEps
                        \/ /\ ~fn.args.allow_partial
                           /\ \/ sum - WeightOne > WeightEps
                              \/ WeightOne - sum > WeightEps
        IN  /\ fn.result.raised = rejected
            /\ ~rejected => /\ fn.result.grade_types = weights
                            /\ fn.result.total_weight = sum

\* C3's case: weights summing to 0.4 are refused without allow_partial
C3_Witness ==
    /\ fn.op = "GradeConfiguration" /\ fn.done
    /\ ~fn.args.allow_partial
    /\ fn.args.grade_types["Homework"] + fn.args.grade_types["Quizzes"] = 40000000
    /\ fn.result.raised

\* C4: letter_grade returns the label of the greatest threshold that is at most
\* the percentage, and the label of the lowest threshold when the percentage is
\* below every threshold; a percentage above the top threshold gets the top label.
C4_LetterGrade ==
    (fn.op = "letter_grade" /\ fn.done) =>
        LET scale == IF fn.args.scale = <<>> THEN DefaultScale ELSE fn.args.scale
            percentage == fn.args.percentage
            reached == {k \in DOMAIN scale : RLe(scale[k][1], percentage)}
            lowest == CHOOSE k \in DOMAIN scale :
                          \A j \in DOMAIN scale : RLe(scale[k][1], scale[j][1])
            greatest == CHOOSE k \in reached :
                            \A j \in reached : RLe(scale[j][1], scale[k][1])
        IN  fn.result = IF reached = {} THEN scale[lowest][2] ELSE scale[greatest][2]

\* C4's case: exactly 90% on the scale F / A- / A / A+ is an A-
C4_Witness ==
    /\ fn.op = "letter_grade" /\ fn.done
    /\ fn.args.scale = ExampleScale
    /\ fn.args.percentage = Frac(90, 100)
    /\ fn.result = "A-"

\* C5: an excused score record has no effect on the processed records, in either
\* only_graded mode: the run leaves the records it leaves with the excused record
\* taken out of the gradebook, and with any other score written on it.
C5_ExcusedNoEffect ==
    call.ran =>
        \A s \in Range(students) : \A r \in Range(s.scores) :
            r.excused =>
                /\ RerunOn(WithoutRecord(students, s.id, r.assignment_id))
                       = processed_students
                /\ \A v \in ExcusedScores :
                       RerunOn(WithScore(students, s.id, r.assignment_id, v))
                           = processed_students

\* C5's case: a student with an excused record in a category they have a result in
C5_Witness ==
    /\ call.ran
    /\ \E s \in Range(students) : \E r \in Range(s.scores) :
           /\ r.excused /\ r.score = 9
           /\ \E p \in Range(processed_students) : \E g \in Range(p.grade_types) :
                  /\ p.user_id = s.id
                  /\ g.type_name = CategoryOf(r.assignment_id)
                  /\ \A e \in Range(g.assignments) :
                         e[1] # assignments[r.assignment_id].name

\* C6: a category's contribution_to_total is its average times the category's
\* full configured weight, and final_percentage is the sum of the contributions
\* of the categories present in the student's results.
C6_Contribution ==
    call.ran =>
        \A p \in Range(processed_students) :
            /\ \A g \in Range(p.grade_types) :
                   g.contribution_to_total =
                       RMul(g.average_percentage, ConfiguredWeight(g.type_name))
            /\ p.final_percentage =
                   RSum([k \in 1..Len(p.grade_types) |->
                            RMul(p.grade_types[k].average_percentage,
                                 ConfiguredWeight(p.grade_types[k].type_name))])

\* C6's case: two categories whose weights do not add up to 1, both contributing
C6_Witness ==
    /\ call.ran
    /\ config.total_weight # WeightOne
    /\ \E p \in Range(processed_students) :
           /\ Len(p.grade_types) = 2
           /\ \A g \in Range(p.grade_types) : RLt(RZero, g.contribution_to_total)
           /\ p.weight_normalization_factor # ROne

\* C7: in every run with only_graded = false every assignment of the gradebook
\* is counted and every processed student's normalization factor is the
\* configured total weight, also on a processor that ran with only_graded = true
\* before.
C7_FullSemesterFactor ==
    (call.ran /\ ~call.only_graded) =>
        /\ graded_assignments = DOMAIN assignments
        /\ \A p \in Range(processed_students) :
               p.weight_normalization_factor = WeightFrac(config.total_weight)

\* C8: in a run with only_graded = false an assignment of a category for which
\* the student has no record counts as a zero fraction in the category average
\* (stated for categories nothing is dropped from).
C8_MissingCountsAsZero ==
    (call.ran /\ ~call.only_graded) =>
        \A p \in Range(processed_students) : \A g \in Range(p.grade_types) :
            DropCount(g.type_name) = 0 =>
                LET student == StudentById(p.user_id)
                    recs == CountedRecords(student, g.type_name, DOMAIN assignments)
                    excused == {r.assignment_id : r \in {x \in Range(student.scores) :
                                                            x.excused}}
                    due == {aid \in DOMAIN assignments :
                               CategoryOf(aid) = g.type_name /\ aid \notin excused}
                IN  g.average_percentage =
                        RDiv(RSum(Fractions(recs)), RInt(Cardinality(due)))

\* C9: in a run with only_graded = true an assignment is counted exactly when
\* some student has a non-excused score above zero for it: an assignment without
\* one appears in no student's results, and every student's non-excused record
\* of a counted assignment, a zero score included, is counted.
C9_GradedOnlyCounting ==
    (call.ran /\ call.only_graded) =>
        LET counted == {aid \in DOMAIN assignments : HasPositiveScore(aid)}
        IN  /\ graded_assignments = counted
            /\ \A p \in Range(processed_students) :
                   LET student == StudentById(p.user_id)
                       FromCounted(name, type_name) ==
                           \E r \in Range(student.scores) :
                               /\ assignments[r.assignment_id].name = name
                               /\ r.assignment_id \in counted
                               /\ CategoryOf(r.assignment_id) = type_name
                               /\ ~r.excused
                   IN  /\ \A g \in Range(p.grade_types) :
                              /\ \A e \in Range(g.assignments) :
                                     FromCounted(e[1], g.type_name)
                              /\ g.dropped # <<>> => FromCounted(g.dropped[1], g.type_name)
                       /\ \A t \in Categories :
                              LET n == Len(CountedRecords(student, t, counted))
                              IN  n > 0 =>
                                      \E g \in Range(p.grade_types) :
                                          /\ g.type_name = t
                                          /\ g.num_assignments
                                                + (IF g.dropped # <<>> THEN DropCount(t)
                                                   ELSE 0) = n

\* C9's case: one assignment nobody scored on is left out while a zero score on
\* an assignment somebody else scored on is counted
C9_Witness ==
    /\ call.ran /\ call.only_graded
    /\ \E p \in Range(processed_students) :
           \E r0 \in Range(StudentById(p.user_id).scores) :
           \E r1 \in Range(StudentById(p.user_id).scores) :
               /\ ~r0.excused /\ r0.score = 0 /\ ~HasPositiveScore(r0.assignment_id)
               /\ ~r1.excused /\ r1.score = 0 /\ HasPositiveScore(r1.assignment_id)
               /\ \E g \in Range(p.grade_types) :
                      /\ g.type_name = CategoryOf(r1.assignment_id)
                      /\ g.assignments = << <<assignments[r1.assignment_id].name, RZero, 0>> >>

\* C10: the drop is applied only when a category has more counted records than
\* the drop count, so every category in a student's results has
\* num_assignments >= 1; a category in which the student has no counted
\* non-excused record is absent from the results and adds nothing to
\* final_percentage.
C10_DropNeverEmpties ==
    call.ran =>
        \A p \in Range(processed_students) :
            LET student == StudentById(p.user_id)
                Counted(t) == Len(CountedRecords(student, t, graded_assignments))
                present == {g.type_name : g \in Range(p.grade_types)}
            IN  /\ \A g \in Range(p.grade_types) :
                       LET n == Counted(g.type_name)
                           k == DropCount(g.type_name)
                       IN  /\ g.num_assignments >= 1
                           /\ (g.dropped # <<>>) = (k > 0 /\ n > k)
                           /\ g.num_assignments = IF k > 0 /\ n > k THEN n - k ELSE n
                /\ present = {t \in Categories : Counted(t) > 0}
                /\ Len(p.grade_types) = Cardinality(present)
                /\ p.final_percentage =
                       RSum([i \in 1..Len(p.grade_types) |->
                                p.grade_types[i].contribution_to_total])

\* C10's case: a drop count equal to the number of counted records is skipped,
\* and a category the student holds only an excused record in is absent
C10_Witness ==
    /\ call.ran
    /\ \E p \in Range(processed_students) : \E g \in Range(p.grade_types) :
           /\ DropCount(g.type_name) = 2
           /\ g.num_assignments = 2
           /\ g.dropped = <<>>
           /\ Len(CountedRecords(StudentById(p.user_id), g.type_name,
                                  graded_assignments)) = 2
           /\ \E r \in Range(StudentById(p.user_id).scores) :
                  /\ r.excused
                  /\ CategoryOf(r.assignment_id) \notin
                         {x.type_name : x \in Range(p.grade_types)}

\* C11: when a drop is applied with drop count k (k > 1 included) the k lowest
\* fractions leave the average and the assignments listing, and dropped holds
\* exactly one item, the name, fraction and points of the single lowest
\* assignment; when no drop is applied dropped is empty.
C11_DroppedRecordsLowest ==
    call.ran =>
        \A p \in Range(processed_students) : \A g \in Range(p.grade_types) :
            LET recs == CountedRecords(StudentById(p.user_id), g.type_name,
                                       graded_assignments)
                fr == Fractions(recs)
                n == Len(recs)
                k == DropCount(g.type_name)
                kept == RSub(RSum(fr), SumLowest(fr, k))
            IN  IF k > 0 /\ n > k
                THEN /\ Len(g.assignments) = n - k
                     /\ RSum([i \in 1..Len(g.assignments) |-> g.assignments[i][2]]) = kept
                     /\ g.average_percentage = RDiv(kept, RInt(n - k))
                     /\ Len(g.dropped) = 3
                     /\ \A e \in Range(g.assignments) : e[1] # g.dropped[1]
                     /\ \E r \in Range(recs) :
                            /\ g.dropped = <<assignments[r.assignment_id].name,
                                             Fraction(r), Points(r)>>
                            /\ \A other \in Range(recs) :
                                   RLe(Fraction(r), Fraction(other))
                ELSE /\ g.dropped = <<>>
                     /\ Len(g.assignments) = n

\* C11's case: fractions 50%, 80%, 90% with k = 2 leave one assignment listed
\* and the 50% one recorded as dropped
C11_Witness ==
    /\ call.ran /\ DropCount("Problem Sets") = 2
    /\ \E p \in Range(processed_students) : \E g \in Range(p.grade_types) :
           /\ g.type_name = "Problem Sets"
           /\ g.dropped = <<"PS1", Frac(50, 100), 5>>
           /\ g.assignments = << <<"PS3", Frac(90, 100), 9>> >>
           /\ g.num_assignments = 1

C13_TestStudentsExcluded ==
    call.ran =>
        LET real == SelectSeq(processed_students, LAMBDA p : p.name \notin ExcludedNames)
        IN  /\ \A p \in Range(processed_students) : p.name \notin ExcludedNames
            /\ \A s \in Range(students) :
                   s.name \in ExcludedNames =>
                       \A p \in Range(processed_students) : p.user_id # s.id
            /\ \A p \in Range(processed_students) : \A f \in Range(p.anomalies) :
                   f.kind = "outlier" =>
                       /\ f.mean = Mean(AveragesOf(real, f.type_name))
                       /\ f.variance = SampleVariance(AveragesOf(real, f.type_name))

\* C13's case: a test student with full marks in the gradebook, six processed
\* students and an outlier finding drawn from their statistics
C13_Witness ==
    /\ call.ran /\ call.detect_anomalies
    /\ \E s \in Range(students) : s.name = "Perfect Score" /\ Len(s.scores) = 4
    /\ Len(processed_students) = 6
    /\ \E p \in Range(processed_students) : FindingsOfKind(p, "outlier") # <<>>

\* C14: a test student is left out of the whole run: a gradebook that differs
\* only in the scores of such a student gives the same counted assignments and
\* the same records (categories, normalization factor included) for all others.
C14_TestStudentNoInfluence ==
    call.ran =>
        \A s \in Range(students) : \A r \in Range(s.scores) :
            s.name \in ExcludedNames =>
                \A v \in {None, 0} :
                    LET other == WithScore(students, s.id, r.assignment_id, v)
                    IN  /\ GradedFor(call.only_graded, assignments, other)
                               = graded_assignments
                        /\ RerunOn(other) = processed_students

\* C15: the anomaly pass of a run works on the stored results of every
\* non-excluded student: its class statistics are those of the complete
\* population, whichever place a student has in the processing order, and with
\* detect_anomalies = false every anomaly list is empty.
C15_AnomaliesAfterProcessing ==
    call.ran =>
        IF ~call.detect_anomalies
        THEN \A p \in Range(processed_students) : p.anomalies = <<>>
        ELSE \A p \in Range(processed_students) : \A g \in Range(p.grade_types) :
                LET xs == AveragesOf(processed_students, g.type_name)
                    found == SelectSeq(FindingsOfKind(p, "outlier"),
                                       LAMBDA f : f.type_name = g.type_name)
                    population == {s \in Range(students) :
                                      /\ s.name \notin ExcludedNames
                                      /\ CountedRecords(s, g.type_name,
                                                        graded_assignments) # <<>>}
                IN  /\ Len(xs) = Cardinality(population)
                    /\ OutlierHolds(g.average_percentage, xs) => found # <<>>
                    /\ \A f \in Range(found) :
                           /\ f.mean = Mean(xs)
                           /\ f.variance = SampleVariance(xs)

\* C15's case: the student processed first is flagged against the statistics of
\* all six students
C15_Witness ==
    /\ call.ran /\ call.detect_anomalies
    /\ Len(processed_students) = 6
    /\ \E f \in Range(FindingsOfKind(processed_students[1], "outlier")) :
           /\ Len(AveragesOf(processed_students, f.type_name)) = 6
           /\ f.mean = Mean(AveragesOf(processed_students, f.type_name))

\* C16: for every unordered pair of distinct categories a student has results
\* in, the anomaly list holds exactly one gap finding when the higher of the two
\* averages is above 0.90 and they differ by more than 0.20, and none
\* otherwise; the finding names the higher category first, with both averages
\* and their difference.
C16_GapFindings ==
    (call.ran /\ call.detect_anomalies) =>
        \A p \in Range(processed_students) :
            /\ \A f \in Range(FindingsOfKind(p, "gap")) :
                   /\ f.high_type # f.low_type
                   /\ HasResult(p, f.high_type) /\ HasResult(p, f.low_type)
            /\ \A t1, t2 \in Categories :
                   (t1 # t2 /\ HasResult(p, t1) /\ HasResult(p, t2)) =>
                       LET named == GapFindingsFor(p, t1, t2)
                       IN  /\ Len(named) =
                                  IF GapHolds(AverageIn(p, t1), AverageIn(p, t2))
                                  THEN 1 ELSE 0
                           /\ \A f \in Range(named) :
                                  /\ f.high_pct = AverageIn(p, f.high_type)
                                  /\ f.low_pct = AverageIn(p, f.low_type)
                                  /\ RLt(f.low_pct, f.high_pct)
                                  /\ f.gap = RSub(f.high_pct, f.low_pct)

\* C16's case: one student has a gap finding that names the category later in
\* the iteration order first, another has results in two categories and none
C16_Witness ==
    /\ call.ran /\ call.detect_anomalies
    /\ \E p \in Range(processed_students) :
           \E f \in Range(FindingsOfKind(p, "gap")) :
               f.high_type = "Problem Sets" /\ f.low_type = "Final"
    /\ \E p \in Range(processed_students) :
           /\ HasResult(p, "Problem Sets") /\ HasResult(p, "Final")
           /\ FindingsOfKind(p, "gap") = <<>>

\* C17: a student's anomaly list holds one variance finding for a category
\* exactly when three or more assignments of the category survive the drop, the
\* sample standard deviation of their fractions is above 0.20 and their mean is
\* above 0.30; the finding's standard deviation and mean are those of the
\* surviving fractions, so no dropped assignment enters them.
C17_VarianceFindings ==
    (call.ran /\ call.detect_anomalies) =>
        \A p \in Range(processed_students) : \A t \in Categories :
            LET fr == SurvivingFractions(StudentById(p.user_id), t)
                found == SelectSeq(FindingsOfKind(p, "variance"),
                                   LAMBDA f : f.type_name = t)
            IN  /\ Len(found) = IF VarianceHolds(fr) THEN 1 ELSE 0
                /\ \A f \in Range(found) :
                       /\ f.variance = SampleVariance(fr)
                       /\ f.mean = Mean(fr)

\* C18: a student's anomaly list holds one outlier finding for a category
\* exactly when two or more processed students have a result in the category,
\* the sample standard deviation of their averages is positive, the student's
\* z-score is above 2.0 and the student's average is above 0.95; no finding is
\* made for an average at or below the class mean.
C18_OutlierFindings ==
    (call.ran /\ call.detect_anomalies) =>
        \A p \in Range(processed_students) : \A t \in Categories :
            LET found == OutlierFindingsFor(p, t)
                xs == AveragesOf(processed_students, t)
            IN  /\ Len(found) =
                       IF HasResult(p, t) /\ OutlierHolds(AverageIn(p, t), xs)
                       THEN 1 ELSE 0
                /\ \A f \in Range(found) :
                       /\ f.average = AverageIn(p, t)
                       /\ RLt(f.mean, f.average)

\* C18's case: a student is flagged in one category and, in another, lies more
\* than two standard deviations above the class mean with an average of at most
\* 0.95 and is not flagged
C18_Witness ==
    /\ call.ran /\ call.detect_anomalies
    /\ \E p \in Range(processed_students) :
           /\ OutlierFindingsFor(p, "Final") # <<>>
           /\ HasResult(p, "Problem Sets")
           /\ OutlierFindingsFor(p, "Problem Sets") = <<>>
           /\ LET xs == AveragesOf(processed_students, "Problem Sets")
                  diff == RSub(AverageIn(p, "Problem Sets"), Mean(xs))
              IN  /\ Len(xs) >= 2
                  /\ RLt(RZero, diff)
                  /\ RLt(RMul(RInt(4), SampleVariance(xs)), RMul(diff, diff))

\* C19: in every student's anomaly list the gap findings come before the
\* variance findings, which come before the outlier findings, and the list has
\* one entry for every pair of categories and every category that meets a
\* check's test: none is merged with another or missing.
C19_FindingsOrder ==
    (call.ran /\ call.detect_anomalies) =>
        \A p \in Range(processed_students) :
            LET held == {t \in Categories : HasResult(p, t)}
                gaps == {pair \in SUBSET held :
                            /\ Cardinality(pair) = 2
                            /\ \E t1, t2 \in pair :
                                   /\ t1 # t2
                                   /\ GapHolds(AverageIn(p, t1), AverageIn(p, t2))}
                variances == {t \in held :
                                 VarianceHolds(SurvivingFractions(StudentById(p.user_id), t))}
                outliers == {t \in held :
                                OutlierHolds(AverageIn(p, t),
                                             AveragesOf(processed_students, t))}
            IN  /\ \A i, j \in DOMAIN p.anomalies :
                       i < j => KindRank(p.anomalies[i].kind) <= KindRank(p.anomalies[j].kind)
                /\ Len(p.anomalies) = Cardinality(gaps) + Cardinality(variances)
                                         + Cardinality(outliers)

\* C19's case: one list holds a finding of each of the three kinds
C19_Witness ==
    /\ call.ran /\ call.detect_anomalies
    /\ \E p \in Range(processed_students) :
           /\ Len(p.anomalies) = 3
           /\ p.anomalies[1].kind = "gap"
           /\ p.anomalies[2].kind = "variance"
           /\ p.anomalies[3].kind = "outlier"

\* C20: a run of process_grades with detect_anomalies = true completes without
\* raising, whatever the gradebook: a check that lacks the two or three values
\* it needs is skipped.
C20_DetectionNeverRaises ==
    (call.ran /\ call.detect_anomalies) => ~call.raised

\* C21: the records a run leaves are a function of the gradebook, the weights,
\* the drop counts, the scales and the flags of the run: after every run, also
\* one that follows other runs on the same processor, processed_students is
\* what a newly constructed processor computes with the same arguments, anomaly
\* lists included.
C21_Repeatable ==
    call.ran => processed_students = FreshRun

\* C22: every record of the per-student pass is the one computed from that
\* student's own score records, the configuration, the counted set and the
\* factor of the run, and a pass that takes the students in another order
\* (any two of them exchanged) leaves the same record for every student.
C22_StudentsIndependent ==
    call.ran =>
        /\ \A p \in Range(processed_students) :
               WithoutAnomalies(p) = RecordAlone(StudentById(p.user_id))
        /\ \A i, j \in DOMAIN students :
               i < j =>
                   Range(PassOver(Transposed(students, i, j)))
                       = {WithoutAnomalies(p) : p \in Range(processed_students)}

\* C22's case: a pass over six students whose records are not all alike
C22_Witness ==
    /\ call.ran
    /\ Len(processed_students) = 6
    /\ \E p, q \in Range(processed_students) :
           /\ p.grade_types # <<>> /\ q.grade_types # <<>>
           /\ p.normalized_percentage # q.normalized_percentage

\* C23: a call of get_sorted_students returns every record of
\* processed_students exactly once, in non-decreasing order of the key when
\* ascending and non-increasing order otherwise (the key being the name for
\* by = 'name' and normalized_percentage for by = 'grade' or 'percentage'), and
\* leaves processed_students and every other field of the processor as it was.
C23_SortedView ==
    [][fn' # fn =>
          LET result == fn'.result
          IN  /\ fn'.op = "get_sorted_students"
              /\ Len(result) = Len(processed_students)
              /\ \A p \in Range(processed_students) :
                     Cardinality({k \in DOMAIN result : result[k] = p}) = 1
              /\ fn'.by \in {"name", "grade", "percentage"} =>
                     \A i, j \in DOMAIN result :
                         i < j =>
                             LET a == IF fn'.ascending THEN result[i] ELSE result[j]
                                 b == IF fn'.ascending THEN result[j] ELSE result[i]
                             IN  IF fn'.by = "name"
                                 THEN NameRank(a.name) <= NameRank(b.name)
                                 ELSE RLe(a.normalized_percentage, b.normalized_percentage)
              /\ UNCHANGED <<assignments, students, config, assignment_to_type,
                             graded_assignments, has_graded, weight_normalization,
                             has_norm, processed_students, scales, drop_config, call>>
    ]_vars

\* C23's case: a descending view by grade of three records with two different
\* percentages, whose order differs from the order of processed_students
C23_Witness ==
    /\ fn.op = "get_sorted_students"
    /\ fn.by = "grade" /\ ~fn.ascending
    /\ Len(fn.result) = 3
    /\ fn.result # processed_students
    /\ RLt(fn.result[3].normalized_percentage, fn.result[1].normalized_percentage)

\* C24: after load_from_data, every student's total_points is the sum of
\* points_possible over the assignments the student has no excused record for
\* (an assignment without a record included), total_score is the sum of the
\* scores present in the student's non-excused records, and percent is
\* 100 * total_score / total_points, None when total_points is 0; a student
\* with 25 on the 50-point assignment only has 25/150, which rounds to 16.67%.
C24_GradebookTotals ==
    \A s \in Range(students) :
        LET excused == {r.assignment_id : r \in {x \in Range(s.scores) : x.excused}}
            due == DOMAIN assignments \ excused
            scored == {r \in Range(s.scores) : ~r.excused /\ r.score # None}
            points == SumValues([aid \in due |->
                                    IF assignments[aid].points_possible # None
                                    THEN assignments[aid].points_possible ELSE 0])
            score == SumValues([aid \in {r.assignment_id : r \in scored} |->
                                   (CHOOSE r \in scored : r.assignment_id = aid).score])
        IN  /\ s.total_points = points
            /\ s.total_score = score
            /\ percent(s) = IF points = 0 THEN <<>> ELSE <<Frac(100 * score, points)>>
            /\ (Len(s.scores) = 1 /\ scored # {}
                    /\ \A r \in scored : r.assignment_id = 2 /\ r.score = 25)
                   => percent(s) = <<Frac(50, 3)>>

\* C24's case: a load leaves Carol with 25 on HW2 and no record for HW1, another
\* student of the same gradebook with records for both
C24_Witness ==
    /\ fn.op = "load_from_data"
    /\ \E s \in Range(students) :
           /\ s.name = "Carol"
           /\ Len(s.scores) = 1 /\ s.scores[1].assignment_id = 2
           /\ s.scores[1].score = 25 /\ ~s.scores[1].excused
           /\ s.total_points = 150 /\ s.total_score = 25
    /\ \E s \in Range(students) : Len(s.scores) = 2 /\ s.total_score = 140

\* C27: whenever a process_grades call has run, whatever runs and loads of the
\* gradebook came before it on the same processor, the keys of
\* processed_students are exactly the ids of the students of the gradebook that
\* are not test students.
C27_KeysAreCurrentStudents ==
    [][(call' # call \/ processed_students' # processed_students) =>
          {p.user_id : p \in Range(processed_students')}
              = {s.id : s \in {x \in Range(students') : x.name \notin ExcludedNames}}
    ]_vars

C28_ListingMatchesCount ==
    call.ran =>
        \A p \in Range(processed_students) : \A g \in Range(p.grade_types) :
            /\ g.num_assignments = Len(g.assignments)
            /\ Len(g.assignments)
                   = Len(SurvivingFractions(StudentById(p.user_id), g.type_name))

\* C29: when fewer than six processed students have a result in a category, no
\* student's average lies more than 2.0 sample standard deviations above the
\* class mean (the student's own average being part of both), and no outlier
\* finding is made for the category.
C29_NoOutlierInSmallClass ==
    (call.ran /\ call.detect_anomalies) =>
        \A t \in Categories :
            LET xs == AveragesOf(processed_students, t)
            IN  Len(xs) < 6 =>
                    \A p \in Range(processed_students) :
                        /\ OutlierFindingsFor(p, t) = <<>>
                        /\ (HasResult(p, t) /\ Len(xs) >= 2) =>
                               LET diff == RSub(AverageIn(p, t), Mean(xs))
                               IN  ~(/\ RLt(RZero, diff)
                                     /\ RLt(RMul(RInt(4), SampleVariance(xs)),
                                            RMul(diff, diff)))

\* C29's case: in a class of five, one student at 120% and four at 0%: the
\* greatest z-score five averages allow, and no finding
C29_Witness ==
    /\ call.ran /\ call.detect_anomalies
    /\ Len(AveragesOf(processed_students, "Homework")) = 5
    /\ \E p \in Range(processed_students) :
           /\ AverageIn(p, "Homework") = Frac(12, 10)
           /\ \A q \in Range(processed_students) :
                  q.user_id # p.user_id => AverageIn(q, "Homework") = RZero
           /\ p.anomalies = <<>>

\* C30: after every roster operation each role's bucket holds at most one
\* entry per user id (an added user replaces the entry of its id) and
\* counts()[role] is the number of distinct ids in the role; an operation on
\* one role leaves the bucket of every other role as it was; an operation
\* that names a role the roster does not have raises ValueError and changes no
\* bucket.
C30_RosterBuckets ==
    [][roster' # roster =>
          LET last == roster'.last
              known == {roster.roles[k] : k \in DOMAIN roster.roles}
          IN  /\ \A role \in known :
                     LET bucket == roster'.data[role]
                     IN  /\ \A i, j \in DOMAIN bucket :
                                bucket[i].id = bucket[j].id => i = j
                         /\ counts(roster')[role]
                                = Cardinality({bucket[k].id : k \in DOMAIN bucket})
              /\ (last.op \in {"add_user", "add_users", "set_users"}
                      /\ last.role \in known /\ last.users # <<>>) =>
                     LET u == last.users[Len(last.users)]
                     IN  \E k \in DOMAIN roster'.data[last.role] :
                             roster'.data[last.role][k] = u
              /\ last.op # "clear_all" =>
                     \A role \in known \ {last.role} :
                         roster'.data[role] = roster.data[role]
              /\ (last.op # "clear_all" /\ last.role \notin known) =>
                     last.raised /\ roster'.data = roster.data
    ]_vars

====
